---- MODULE Spec2Model ----
(***************************************************************************)
(* The alarm of the kello clock: the alarm module (alarm.tsx, kept in      *)
(* src/unnamed/part_002 lines 1-652) and the polling loop that drives it   *)
(* (src/src/index.tsx lines 88-148).  Every exported function of the alarm *)
(* module is an operation of the model; the clock is an external time      *)
(* source read by the poll and never runs backwards.                       *)
(*                                                                         *)
(*   Spec      the alarm, its poll and the user, over a few minutes        *)
(*   SpecCalc  the time-to-alarm display over sampled times                *)
(*   SpecSet   the setters over a wide range of inputs                     *)
(*   SpecDay   one day polled every minute, the user only dismissing       *)
(*   SpecParse the startup loaders over sampled stored texts               *)
(*   SpecLoad  the page with its query string, the alarm hand and reloads  *)
(*   SpecSound the ring where the Web Audio calls may throw                *)
(*   SpecTick  the poll that also announces the pre-alarm                  *)
(*   SpecRing  the ring as the poll, the toggle and the test start it      *)
(*   SpecWake  the screen wake lock of index.tsx                           *)
(***************************************************************************)
EXTENDS Integers, FiniteSets, Sequences, TLC

VARIABLES
    alarmEnabled,        \* part_002:11  urlSignal<boolean>
    alarmHours,          \* part_002:12  urlSignal<number>, 0..11
    alarmMinutes,        \* part_002:13  urlSignal<number>, 0..59
    preAlarmEnabled,     \* part_002:14
    preAlarmInterval,    \* part_002:15
    alarmTriggered,      \* part_002:16  signal(false)
    audioContext,        \* part_002:24  TRUE when the handle is not null
    oscillatorNode,      \* part_002:25  TRUE when the handle is not null
    gainNode,            \* part_002:26  TRUE when the handle is not null
    lastPreAlarmMinute,  \* part_002:275 signal(-1)
    currentTime,         \* index.tsx:89 signal(new Date()): [hours, minutes, seconds]
    lastCheckedMinute,   \* index.tsx:92 signal(-1)
    chimeTimers,         \* part_002:138 the pending setTimeout callbacks of playPattern
    url,                 \* part_001:4  window.location.search: the text of each parameter
    audioFails,          \* environment: TRUE when the Web Audio calls of playAlarmSound may throw
    wakeLockEnabled,     \* index.tsx:22  signal(false)
    wakeLockSentinel,    \* index.tsx:24  0 is null, otherwise the sentinel held
    sentinels,           \* environment: every WakeLockSentinel the browser has handed out
    pendingRequests,     \* index.tsx:42  calls waiting in await navigator.wakeLock.request
    pendingReleases,     \* index.tsx:58  calls waiting in await wakeLockSentinel.release()
    visibilityState,     \* index.tsx:440 document.visibilityState
    lostToSystem,        \* history: the system took the lock while wakeLockEnabled was true
    timeToNextAlarm,     \* part_002:386 the computed signal as AlarmTimeInput last read it
    loaded,              \* history: what the startup loaders returned for one stored text
    elapsed,             \* history: minutes the clock has advanced since startup
    pollTriggers,        \* history: triggerAlarm calls made by the poll in the clock's current minute
    preFires,            \* history: firing checkPreAlarm calls in the clock's current minute
    lastOp               \* history: the operation that ran last, its pre-state and its result

vars == <<alarmEnabled, alarmHours, alarmMinutes, preAlarmEnabled, preAlarmInterval,
          alarmTriggered, audioContext, oscillatorNode, gainNode, lastPreAlarmMinute,
          currentTime, lastCheckedMinute, chimeTimers, url, audioFails,
          wakeLockEnabled, wakeLockSentinel, sentinels, pendingRequests,
          pendingReleases, visibilityState, lostToSystem,
          timeToNextAlarm, loaded, elapsed, pollTriggers, preFires, lastOp>>

\* The state of the alarm module proper (no clock, no history).
alarmVars == <<alarmEnabled, alarmHours, alarmMinutes, preAlarmEnabled, preAlarmInterval,
               alarmTriggered, audioContext, oscillatorNode, gainNode, lastPreAlarmMinute>>

soundVars == <<audioContext, oscillatorNode, gainNode>>

\* The state of the program: the alarm module and the poll's clock.
progVars == <<alarmEnabled, alarmHours, alarmMinutes, preAlarmEnabled, preAlarmInterval,
              alarmTriggered, audioContext, oscillatorNode, gainNode, lastPreAlarmMinute,
              currentTime, lastCheckedMinute, chimeTimers, url>>

\* The screen wake lock (index.tsx:21-24) and the browser's side of it.
wakeVars == <<wakeLockEnabled, wakeLockSentinel, sentinels, pendingRequests,
              pendingReleases, visibilityState, lostToSystem>>

\* What no operation of the alarm module writes: the query string (written by
\* the timers of urlSignal), the audio environment, the loaders' history and
\* the wake lock.
envVars == <<url, audioFails, loaded, wakeVars>>

----------------------------------------------------------------------------
(* Program constants *)

HoursPerDial == 12
HoursPerDay == 24
MinutesPerHour == 60
SecondsPerMinute == 60
DefaultAlarmHours == 7
DefaultAlarmMinutes == 0
DefaultPreAlarmInterval == 5
NoMinute == -1

MinutesPerDay == HoursPerDay * MinutesPerHour

(* Bounds of the model *)

MaxElapsed == 2        \* minutes the clock advances in one run of Spec
MaxMinuteJump == 2     \* minutes the clock may advance between two poll ticks
MaxHourInput == 13     \* setAlarmHours is called with -MaxHourInput..MaxHourInput
MaxWraps == 2          \* setAlarmMinutes is called up to MaxWraps hours away from 0..59
CountCap == 2          \* the history counters stop counting here
MaxChimeTimers == 2    \* playPattern timers pending at once
AngleStepsPerMinute == 2   \* the angles of the alarm hand are this fine
MaxStoredNumber == 75  \* stored numbers are read in -MaxStoredNumber..MaxStoredNumber
MaxSentinels == 3      \* wake-lock sentinels the browser hands out in one run
MaxPending == 2        \* wake-lock calls waiting in one await at once

----------------------------------------------------------------------------
(* The wake lock at startup *)

NoSentinel == 0

\* index.tsx:22-24; the page is visible and the browser has handed out no
\* sentinel.
InitWakeLock ==
    /\ wakeLockEnabled = FALSE
    /\ wakeLockSentinel = NoSentinel
    /\ sentinels = [id \in 1..MaxSentinels |-> "none"]
    /\ pendingRequests = 0
    /\ pendingReleases = 0
    /\ visibilityState = "visible"
    /\ lostToSystem = FALSE

----------------------------------------------------------------------------
(* JavaScript arithmetic *)

\* The % operator of JavaScript: the remainder takes the sign of the dividend.
JsRem(a, b) == IF a >= 0 THEN a % b ELSE -((-a) % b)

Time(h, m, s) == [hours |-> h, minutes |-> m, seconds |-> s]

\* currentTime.getHours() * 60 + currentTime.getMinutes()
MinuteOfDay(t) == t.hours * MinutesPerHour + t.minutes

\* The wall clock d minutes after t, at second s.
Advance(t, d, s) ==
    LET total == (MinuteOfDay(t) + d) % MinutesPerDay
    IN Time(total \div MinutesPerHour, total % MinutesPerHour, s)

----------------------------------------------------------------------------
(* The time-to-alarm calculators *)

\* computeMinutesUntilAlarm wrapping to tomorrow's second occurrence instead
\* of the first.
computeMinutesUntilAlarmWrongWrap(t, ah, am) ==
    LET currentTotalMinutes == t.hours * MinutesPerHour + t.minutes
        alarmTotalMinutes1 == ah * MinutesPerHour + am
        alarmTotalMinutes2 == (ah + HoursPerDial) * MinutesPerHour + am
    IN IF currentTotalMinutes < alarmTotalMinutes1
       THEN alarmTotalMinutes1 - currentTotalMinutes
       ELSE IF currentTotalMinutes < alarmTotalMinutes2
            THEN alarmTotalMinutes2 - currentTotalMinutes
            ELSE HoursPerDay * MinutesPerHour - currentTotalMinutes + alarmTotalMinutes2

\* computeMinutesUntilAlarm with one occurrence a day, as the 24-hour
\* comparison of part_002:676-685 has it.
computeMinutesUntilAlarmSingleOccurrence(t, ah, am) ==
    LET currentTotalMinutes == t.hours * MinutesPerHour + t.minutes
        alarmTotalMinutes1 == ah * MinutesPerHour + am
    IN IF currentTotalMinutes < alarmTotalMinutes1
       THEN alarmTotalMinutes1 - currentTotalMinutes
       ELSE HoursPerDay * MinutesPerHour - currentTotalMinutes + alarmTotalMinutes1

\* computeMinutesUntilAlarm comparing with <=: the minute of the alarm counts
\* as its own next occurrence.
computeMinutesUntilAlarmInclusive(t, ah, am) ==
    LET currentTotalMinutes == t.hours * MinutesPerHour + t.minutes
        alarmTotalMinutes1 == ah * MinutesPerHour + am
        alarmTotalMinutes2 == (ah + HoursPerDial) * MinutesPerHour + am
    IN IF currentTotalMinutes <= alarmTotalMinutes1
       THEN alarmTotalMinutes1 - currentTotalMinutes
       ELSE IF currentTotalMinutes <= alarmTotalMinutes2
            THEN alarmTotalMinutes2 - currentTotalMinutes
            ELSE HoursPerDay * MinutesPerHour - currentTotalMinutes + alarmTotalMinutes1

\* computeMinutesUntilAlarm taking the afternoon occurrence at the full hour:
\* the minutes of the alarm are left out of the second candidate.
computeMinutesUntilAlarmFullHour(t, ah, am) ==
    LET currentTotalMinutes == t.hours * MinutesPerHour + t.minutes
        alarmTotalMinutes1 == ah * MinutesPerHour + am
        alarmTotalMinutes2 == (ah + HoursPerDial) * MinutesPerHour
    IN IF currentTotalMinutes < alarmTotalMinutes1
       THEN alarmTotalMinutes1 - currentTotalMinutes
       ELSE IF currentTotalMinutes < alarmTotalMinutes2
            THEN alarmTotalMinutes2 - currentTotalMinutes
            ELSE HoursPerDay * MinutesPerHour - currentTotalMinutes + alarmTotalMinutes1

\* part_002:35-51.  t is the Date passed in; ah, am are alarmHours.value and
\* alarmMinutes.value.
computeMinutesUntilAlarm(t, ah, am) ==
    LET currentTotalMinutes == t.hours * MinutesPerHour + t.minutes
        alarmTotalMinutes1 == ah * MinutesPerHour + am
        alarmTotalMinutes2 == (ah + HoursPerDial) * MinutesPerHour + am
    IN IF currentTotalMinutes < alarmTotalMinutes1
       THEN alarmTotalMinutes1 - currentTotalMinutes
       ELSE IF currentTotalMinutes < alarmTotalMinutes2
            THEN alarmTotalMinutes2 - currentTotalMinutes
            ELSE HoursPerDay * MinutesPerHour - currentTotalMinutes + alarmTotalMinutes1

\* part_002:60-69: hours, minutes, seconds of secondsUntilAlarm.  Math.floor
\* rounds down and % is the JavaScript remainder.
Decompose(secondsUntilAlarm) ==
    [total   |-> secondsUntilAlarm,
     hours   |-> secondsUntilAlarm \div (MinutesPerHour * SecondsPerMinute),
     minutes |-> JsRem(secondsUntilAlarm, MinutesPerHour * SecondsPerMinute) \div SecondsPerMinute,
     seconds |-> JsRem(secondsUntilAlarm, SecondsPerMinute)]

\* part_002:54-71, the value of the computed signal while the alarm is enabled.
computeTimeToNextAlarm(t, ah, am) ==
    LET currentSeconds == t.seconds
        minutesUntilAlarm == computeMinutesUntilAlarm(t, ah, am)
        secondsUntilAlarm == minutesUntilAlarm * SecondsPerMinute - currentSeconds
    IN Decompose(secondsUntilAlarm)

\* The second-granularity variant comparing with <=: the first second of the
\* alarm's minute counts as the alarm's next occurrence.
computeTimeToNextAlarmSecondsInclusive(t, ah, am) ==
    LET currentTotalMinutes == t.hours * MinutesPerHour + t.minutes
        currentTotalSeconds == currentTotalMinutes * SecondsPerMinute + t.seconds
        alarmTotalMinutes1 == ah * MinutesPerHour + am
        alarmTotalMinutes2 == (ah + HoursPerDial) * MinutesPerHour + am
        alarmTotalSeconds1 == alarmTotalMinutes1 * SecondsPerMinute
        alarmTotalSeconds2 == alarmTotalMinutes2 * SecondsPerMinute
        secondsInDay == HoursPerDay * MinutesPerHour * SecondsPerMinute
    IN Decompose(IF currentTotalSeconds <= alarmTotalSeconds1
                 THEN alarmTotalSeconds1 - currentTotalSeconds
                 ELSE IF currentTotalSeconds <= alarmTotalSeconds2
                      THEN alarmTotalSeconds2 - currentTotalSeconds
                      ELSE secondsInDay - currentTotalSeconds + alarmTotalSeconds1)

\* part_002:971-1017, the variant that compares at second granularity.
computeTimeToNextAlarmSeconds(t, ah, am) ==
    LET currentTotalMinutes == t.hours * MinutesPerHour + t.minutes
        currentTotalSeconds == currentTotalMinutes * SecondsPerMinute + t.seconds
        alarmTotalMinutes1 == ah * MinutesPerHour + am
        alarmTotalMinutes2 == (ah + HoursPerDial) * MinutesPerHour + am
        alarmTotalSeconds1 == alarmTotalMinutes1 * SecondsPerMinute
        alarmTotalSeconds2 == alarmTotalMinutes2 * SecondsPerMinute
        secondsInDay == HoursPerDay * MinutesPerHour * SecondsPerMinute
    IN Decompose(IF currentTotalSeconds < alarmTotalSeconds1
                 THEN alarmTotalSeconds1 - currentTotalSeconds
                 ELSE IF currentTotalSeconds < alarmTotalSeconds2
                      THEN alarmTotalSeconds2 - currentTotalSeconds
                      ELSE secondsInDay - currentTotalSeconds + alarmTotalSeconds1)

----------------------------------------------------------------------------
(* The match detector *)

\* hours12 of a 24-hour comparison (the variant of part_002:676-685).
hours12Identity(hours) == hours

\* part_002:79  const hours12 = hours % 12
hours12(hours) == JsRem(hours, HoursPerDial)

\* part_002:76-94, the time comparison of checkAlarm: the hour on the
\* 12-hour dial and the minute of t are those of the alarm.
alarmTimeMatches(t) ==
    hours12(t.hours) = alarmHours /\ t.minutes = alarmMinutes

\* checkAlarm reading the currentTime signal, which the caller has not yet
\* advanced, instead of the Date it is handed.
checkAlarmStaleTime(t) ==
    IF ~alarmEnabled \/ alarmTriggered
    THEN FALSE
    ELSE hours12(currentTime.hours) = alarmHours /\ currentTime.minutes = alarmMinutes

\* checkAlarm without the test of alarmEnabled.
checkAlarmIgnoresEnabled(t) ==
    IF alarmTriggered
    THEN FALSE
    ELSE alarmTimeMatches(t)

\* part_002:74-95
checkAlarm(t) ==
    IF ~alarmEnabled \/ alarmTriggered
    THEN FALSE
    ELSE alarmTimeMatches(t)

----------------------------------------------------------------------------
(* History of the last operation *)

Bump(n) == IF n < CountCap THEN n + 1 ELSE n

\* run counts the consecutive calls of the same operation, up to CountCap;
\* prevStopWork is the stopWork of the operation before.
Op(name, arg, checked, fired, minutes, stopCalls, stopWork) ==
    [name |-> name, pre |-> progVars,
     run |-> IF lastOp.name = name THEN Bump(lastOp.run) ELSE 1,
     prevStopWork |-> lastOp.stopWork, arg |-> arg,
     checked |-> checked, fired |-> fired, minutes |-> minutes,
     stopCalls |-> stopCalls, stopWork |-> stopWork, threw |-> FALSE,
     key |-> "", text |-> <<>>]

PlainOp(name) == Op(name, 0, FALSE, FALSE, 0, 0, 0)

\* Fields of the pre-state kept in lastOp.pre (the order of progVars).
PreEnabled == lastOp.pre[1]
PreHours == lastOp.pre[2]
PreMinutes == lastOp.pre[3]
PrePreAlarmEnabled == lastOp.pre[4]
PreInterval == lastOp.pre[5]
PreTriggered == lastOp.pre[6]
PreAudioContext == lastOp.pre[7]
PreLastPreAlarmMinute == lastOp.pre[10]

\* The number of handles stopAlarmSound has to release.
OpenHandles ==
    (IF oscillatorNode THEN 1 ELSE 0) + (IF gainNode THEN 1 ELSE 0)
        + (IF audioContext THEN 1 ELSE 0)

----------------------------------------------------------------------------
(* Sound *)

\* How a run of playAlarmSound ends: "ok" runs to the end; "noContext" throws
\* at new AudioContext() (part_002:101), "noGain" at createGain (part_002:103),
\* "noChime" inside the first playPattern (part_002:109-123) before its
\* setTimeout.  The Web Audio calls throw only where the environment lets them.
AudioOutcomes ==
    IF audioFails THEN {"ok", "noContext", "noGain", "noChime"} ELSE {"ok"}

\* The exception leaves playAlarmSound and its caller.
Thrown(outcome) == ~audioContext /\ outcome # "ok"

\* A new chime chain is started only while fewer than MaxChimeTimers timers
\* are pending.
CanSchedule(outcome) ==
    (~audioContext /\ outcome = "ok") => chimeTimers < MaxChimeTimers

\* part_002:98-146.  The handle of the oscillator is never assigned; the first
\* playPattern leaves one timer pending.
playAlarmSound(outcome) ==
    IF audioContext
    THEN UNCHANGED <<soundVars, chimeTimers>>
    ELSE /\ audioContext' = (outcome # "noContext")
         /\ gainNode' = IF outcome \in {"ok", "noChime"} THEN TRUE ELSE gainNode
         /\ UNCHANGED oscillatorNode
         /\ chimeTimers' = IF outcome = "ok" THEN chimeTimers + 1 ELSE chimeTimers

\* stopAlarmSound forgetting to close and null the AudioContext.
stopAlarmSoundKeepsContext ==
    /\ oscillatorNode' = FALSE
    /\ gainNode' = FALSE
    /\ UNCHANGED audioContext

\* stopAlarmSound closing the AudioContext only inside the gainNode branch.
stopAlarmSoundNeedsGain ==
    /\ oscillatorNode' = FALSE
    /\ gainNode' = FALSE
    /\ audioContext' = IF gainNode THEN FALSE ELSE audioContext

\* part_002:149-163.  No timer is cleared.
stopAlarmSound ==
    /\ oscillatorNode' = FALSE
    /\ gainNode' = FALSE
    /\ audioContext' = FALSE

\* part_002:138-142, the callback of a playPattern timer: the pattern plays
\* again and leaves a timer of its own while the alarm rings and a context is
\* open, whichever ring started the timer.
chimeTimeout ==
    \E outcome \in AudioOutcomes :
        LET repeats == alarmTriggered /\ audioContext
            continues == repeats /\ outcome # "noChime"
        IN /\ chimeTimers > 0
           /\ chimeTimers' = IF continues THEN chimeTimers ELSE chimeTimers - 1
           /\ lastOp' = [Op("chimeTimeout", 0, repeats, continues, 0, 0, 0)
                            EXCEPT !.threw = repeats /\ ~continues]
           /\ UNCHANGED <<alarmVars, currentTime, lastCheckedMinute, timeToNextAlarm,
                          elapsed, pollTriggers, preFires>>
           /\ UNCHANGED envVars

----------------------------------------------------------------------------
(* Lifecycle operations *)

\* part_002:305-308, the assignments of triggerAlarm
triggerAlarmBody(outcome) ==
    /\ alarmTriggered' = TRUE
    /\ playAlarmSound(outcome)

\* dismissAlarm of the dismiss-only variant (ToggleButton.tsx:293-296).
dismissAlarmKeepsArmed ==
    /\ alarmTriggered' = FALSE
    /\ UNCHANGED alarmEnabled
    /\ stopAlarmSound

\* part_002:311-315, the assignments of dismissAlarm
dismissAlarmBody ==
    /\ alarmTriggered' = FALSE
    /\ alarmEnabled' = FALSE
    /\ stopAlarmSound

\* part_002:305-308
triggerAlarm ==
    \E outcome \in AudioOutcomes :
        /\ CanSchedule(outcome)
        /\ triggerAlarmBody(outcome)
        /\ lastOp' = [PlainOp("triggerAlarm") EXCEPT !.threw = Thrown(outcome)]
        /\ UNCHANGED <<alarmEnabled, alarmHours, alarmMinutes, preAlarmEnabled,
                       preAlarmInterval, lastPreAlarmMinute, currentTime,
                       lastCheckedMinute, timeToNextAlarm, elapsed, pollTriggers, preFires>>
        /\ UNCHANGED envVars

\* part_002:311-315
dismissAlarm ==
    /\ dismissAlarmBody
    /\ lastOp' = Op("dismissAlarm", 0, FALSE, FALSE, 0, 1, OpenHandles)
    /\ UNCHANGED <<alarmHours, alarmMinutes, preAlarmEnabled, preAlarmInterval,
                   lastPreAlarmMinute, currentTime, lastCheckedMinute, chimeTimers,
                   timeToNextAlarm, elapsed, pollTriggers, preFires>>
    /\ UNCHANGED envVars

\* part_002:318-323
testAlarm ==
    \E outcome \in AudioOutcomes :
        /\ IF alarmTriggered
           THEN /\ outcome = "ok"
                /\ UNCHANGED <<alarmTriggered, soundVars, chimeTimers>>
                /\ lastOp' = PlainOp("testAlarm")
           ELSE /\ CanSchedule(outcome)
                /\ alarmTriggered' = TRUE
                /\ playAlarmSound(outcome)
                /\ lastOp' = [PlainOp("testAlarm") EXCEPT !.threw = Thrown(outcome)]
        /\ UNCHANGED <<alarmEnabled, alarmHours, alarmMinutes, preAlarmEnabled,
                       preAlarmInterval, lastPreAlarmMinute, currentTime,
                       lastCheckedMinute, timeToNextAlarm, elapsed, pollTriggers, preFires>>
        /\ UNCHANGED envVars

\* toggleAlarm without the dismissAlarm call of the disabling branch.
toggleAlarmNoDismiss ==
    /\ alarmEnabled' = ~alarmEnabled
    /\ UNCHANGED <<alarmTriggered, soundVars>>
    /\ lastOp' = PlainOp("toggleAlarm")
    /\ UNCHANGED <<alarmHours, alarmMinutes, preAlarmEnabled, preAlarmInterval,
                   lastPreAlarmMinute, currentTime, lastCheckedMinute, chimeTimers,
                   timeToNextAlarm, elapsed, pollTriggers, preFires>>
    /\ UNCHANGED envVars

\* part_002:349-354
toggleAlarm ==
    /\ IF ~alarmEnabled
       THEN /\ alarmEnabled' = TRUE
            /\ UNCHANGED <<alarmTriggered, soundVars>>
            /\ lastOp' = PlainOp("toggleAlarm")
       ELSE /\ dismissAlarmBody
            /\ lastOp' = Op("toggleAlarm", 0, FALSE, FALSE, 0, 1, OpenHandles)
    /\ UNCHANGED <<alarmHours, alarmMinutes, preAlarmEnabled, preAlarmInterval,
                   lastPreAlarmMinute, currentTime, lastCheckedMinute, chimeTimers,
                   timeToNextAlarm, elapsed, pollTriggers, preFires>>
    /\ UNCHANGED envVars

\* part_002:19-21
togglePreAlarm ==
    /\ preAlarmEnabled' = ~preAlarmEnabled
    /\ lastOp' = PlainOp("togglePreAlarm")
    /\ UNCHANGED <<alarmEnabled, alarmHours, alarmMinutes, preAlarmInterval,
                   alarmTriggered, soundVars, lastPreAlarmMinute, currentTime,
                   lastCheckedMinute, chimeTimers, timeToNextAlarm, elapsed,
                   pollTriggers, preFires>>
    /\ UNCHANGED envVars

\* part_002:399-405: the handler ignores a value below 1.
handleIntervalChange(value) ==
    /\ preAlarmInterval' = IF value >= 1 THEN value ELSE preAlarmInterval
    /\ lastOp' = Op("handleIntervalChange", value, FALSE, FALSE, 0, 0, 0)
    /\ UNCHANGED <<alarmEnabled, alarmHours, alarmMinutes, preAlarmEnabled,
                   alarmTriggered, soundVars, lastPreAlarmMinute, currentTime,
                   lastCheckedMinute, chimeTimers, timeToNextAlarm, elapsed,
                   pollTriggers, preFires>>
    /\ UNCHANGED envVars

----------------------------------------------------------------------------
(* Setters *)

\* setAlarmHours with a single remainder, which is negative below 0.
setAlarmHoursNoWrap(hours) ==
    /\ alarmHours' = JsRem(hours, HoursPerDial)
    /\ lastOp' = Op("setAlarmHours", hours, FALSE, FALSE, 0, 0, 0)
    /\ UNCHANGED <<alarmEnabled, alarmMinutes, preAlarmEnabled, preAlarmInterval,
                   alarmTriggered, soundVars, lastPreAlarmMinute, currentTime,
                   lastCheckedMinute, chimeTimers, timeToNextAlarm, elapsed,
                   pollTriggers, preFires>>
    /\ UNCHANGED envVars

\* part_002:339-341
setAlarmHours(hours) ==
    /\ alarmHours' = JsRem(JsRem(hours, HoursPerDial) + HoursPerDial, HoursPerDial)
    /\ lastOp' = Op("setAlarmHours", hours, FALSE, FALSE, 0, 0, 0)
    /\ UNCHANGED <<alarmEnabled, alarmMinutes, preAlarmEnabled, preAlarmInterval,
                   alarmTriggered, soundVars, lastPreAlarmMinute, currentTime,
                   lastCheckedMinute, chimeTimers, timeToNextAlarm, elapsed,
                   pollTriggers, preFires>>
    /\ UNCHANGED envVars

\* part_002:344-346
setAlarmMinutes(minutes) ==
    /\ alarmMinutes' = JsRem(JsRem(minutes, MinutesPerHour) + MinutesPerHour, MinutesPerHour)
    /\ lastOp' = Op("setAlarmMinutes", minutes, FALSE, FALSE, 0, 0, 0)
    /\ UNCHANGED <<alarmEnabled, alarmHours, preAlarmEnabled, preAlarmInterval,
                   alarmTriggered, soundVars, lastPreAlarmMinute, currentTime,
                   lastCheckedMinute, chimeTimers, timeToNextAlarm, elapsed,
                   pollTriggers, preFires>>
    /\ UNCHANGED envVars

----------------------------------------------------------------------------
(* The input handlers *)

\* The text of an input element is the sequence of its characters.
Digits == <<"0", "1", "2", "3", "4", "5", "6", "7", "8", "9">>

IsDigit(c) == \E d \in 1..Len(Digits) : Digits[d] = c
DigitValue(c) == (CHOOSE d \in 1..Len(Digits) : Digits[d] = c) - 1

RECURSIVE DecimalValue(_)
DecimalValue(chars) ==
    IF chars = <<>>
    THEN 0
    ELSE DecimalValue(SubSeq(chars, 1, Len(chars) - 1)) * 10 + DigitValue(chars[Len(chars)])

AllDigits(chars) == \A i \in 1..Len(chars) : IsDigit(chars[i])

\* A JavaScript number of the handlers: NaN or an integer.
NaN == [isNaN |-> TRUE, num |-> 0]
Number_(n) == [isNaN |-> FALSE, num |-> n]

\* target.value.split(":"): the parts between the colons.
RECURSIVE Split(_)
Split(chars) ==
    IF \E i \in 1..Len(chars) : chars[i] = ":"
    THEN LET i == CHOOSE j \in 1..Len(chars) :
                      chars[j] = ":" /\ \A k \in 1..(j - 1) : chars[k] # ":"
         IN <<SubSeq(chars, 1, i - 1)>> \o Split(SubSeq(chars, i + 1, Len(chars)))
    ELSE <<chars>>

\* Number(part) of part_002:391-392: the empty text is 0, a decimal numeral
\* its value, anything else NaN.  missing is parts[i] of a part that is not
\* there (undefined).
NumberOf(parts, i) ==
    IF i > Len(parts)
    THEN NaN
    ELSE LET chars == parts[i]
         IN IF AllDigits(chars)
            THEN Number_(DecimalValue(chars))
            ELSE IF chars[1] = "-" /\ Len(chars) > 1 /\ AllDigits(Tail(chars))
                 THEN Number_(-DecimalValue(Tail(chars)))
                 ELSE NaN

\* parseInt(text, 10) of ToggleButton.tsx:360: the longest numeral the text
\* starts with, NaN when there is none.
DigitPrefix(chars) ==
    LET n == CHOOSE k \in 0..Len(chars) :
                 /\ AllDigits(SubSeq(chars, 1, k))
                 /\ k < Len(chars) => ~IsDigit(chars[k + 1])
    IN SubSeq(chars, 1, n)

parseInt(chars) ==
    IF chars # <<>> /\ chars[1] = "-"
    THEN (IF DigitPrefix(Tail(chars)) = <<>>
          THEN NaN
          ELSE Number_(-DecimalValue(DigitPrefix(Tail(chars)))))
    ELSE (IF DigitPrefix(chars) = <<>>
          THEN NaN
          ELSE Number_(DecimalValue(DigitPrefix(chars))))

WrapHours(hours) == JsRem(JsRem(hours, HoursPerDial) + HoursPerDial, HoursPerDial)
WrapMinutes(minutes) == JsRem(JsRem(minutes, MinutesPerHour) + MinutesPerHour, MinutesPerHour)

\* handleTimeChange testing the hours alone.
handleTimeChangeHoursOnly(chars) ==
    LET parts == Split(chars)
        hours == NumberOf(parts, 1)
        minutes == NumberOf(parts, 2)
        sets == ~hours.isNaN
    IN /\ alarmHours' = IF sets THEN WrapHours(hours.num) ELSE alarmHours
       /\ alarmMinutes' = IF sets /\ ~minutes.isNaN THEN WrapMinutes(minutes.num)
                          ELSE alarmMinutes
       /\ lastOp' = [Op("handleTimeChange", 0, FALSE, sets, 0, 0, 0) EXCEPT !.text = chars]
       /\ UNCHANGED <<alarmEnabled, preAlarmEnabled, preAlarmInterval,
                      alarmTriggered, soundVars, lastPreAlarmMinute, currentTime,
                      lastCheckedMinute, chimeTimers, timeToNextAlarm, elapsed,
                      pollTriggers, preFires>>
       /\ UNCHANGED envVars

\* part_002:388-397, the change handler of the time input.  fired of lastOp
\* tells whether the setters were called.
handleTimeChange(chars) ==
    LET parts == Split(chars)
        hours == NumberOf(parts, 1)
        minutes == NumberOf(parts, 2)
        sets == ~hours.isNaN /\ ~minutes.isNaN
    IN /\ alarmHours' = IF sets THEN WrapHours(hours.num) ELSE alarmHours
       /\ alarmMinutes' = IF sets THEN WrapMinutes(minutes.num) ELSE alarmMinutes
       /\ lastOp' = [Op("handleTimeChange", 0, FALSE, sets, 0, 0, 0) EXCEPT !.text = chars]
       /\ UNCHANGED <<alarmEnabled, preAlarmEnabled, preAlarmInterval,
                      alarmTriggered, soundVars, lastPreAlarmMinute, currentTime,
                      lastCheckedMinute, chimeTimers, timeToNextAlarm, elapsed,
                      pollTriggers, preFires>>
       /\ UNCHANGED envVars

\* ToggleButton.tsx:358-364, the change handler of the hours input of the
\* variant with two number inputs.
handleHoursChange(chars) ==
    LET value == parseInt(chars)
        sets == ~value.isNaN
    IN /\ alarmHours' = IF sets THEN WrapHours(value.num) ELSE alarmHours
       /\ lastOp' = [Op("handleHoursChange", 0, FALSE, sets, 0, 0, 0) EXCEPT !.text = chars]
       /\ UNCHANGED <<alarmEnabled, alarmMinutes, preAlarmEnabled, preAlarmInterval,
                      alarmTriggered, soundVars, lastPreAlarmMinute, currentTime,
                      lastCheckedMinute, chimeTimers, timeToNextAlarm, elapsed,
                      pollTriggers, preFires>>
       /\ UNCHANGED envVars

\* ToggleButton.tsx:366-372, the change handler of its minutes input.
handleMinutesChange(chars) ==
    LET value == parseInt(chars)
        sets == ~value.isNaN
    IN /\ alarmMinutes' = IF sets THEN WrapMinutes(value.num) ELSE alarmMinutes
       /\ lastOp' = [Op("handleMinutesChange", 0, FALSE, sets, 0, 0, 0) EXCEPT !.text = chars]
       /\ UNCHANGED <<alarmEnabled, alarmHours, preAlarmEnabled, preAlarmInterval,
                      alarmTriggered, soundVars, lastPreAlarmMinute, currentTime,
                      lastCheckedMinute, chimeTimers, timeToNextAlarm, elapsed,
                      pollTriggers, preFires>>
       /\ UNCHANGED envVars

----------------------------------------------------------------------------
(* The alarm hand *)

\* part_002:522-530.  The angle is a / AngleStepsPerMinute minutes of the dial,
\* a in 0 .. 720 * AngleStepsPerMinute - 1 (0 to below 360 degrees, part_002:
\* 516-517).  Math.floor gives the hour, Math.round the minute of the rest,
\* rounding a half upwards.
updateAlarmFromAngle(a) ==
    LET stepsPerHour == MinutesPerHour * AngleStepsPerMinute
        hours == a \div stepsPerHour
        minutes == (2 * (a % stepsPerHour) + AngleStepsPerMinute)
                       \div (2 * AngleStepsPerMinute)
    IN /\ alarmHours' = JsRem(hours, HoursPerDial)
       /\ alarmMinutes' = JsRem(minutes, MinutesPerHour)
       /\ lastOp' = Op("updateAlarmFromAngle", a, FALSE, FALSE, minutes, 0, 0)
       /\ UNCHANGED <<alarmEnabled, preAlarmEnabled, preAlarmInterval,
                      alarmTriggered, soundVars, lastPreAlarmMinute, currentTime,
                      lastCheckedMinute, chimeTimers, timeToNextAlarm, elapsed,
                      pollTriggers, preFires>>
       /\ UNCHANGED envVars

----------------------------------------------------------------------------
(* The pre-alarm detector *)

\* preAlarmDue without the interval test.
preAlarmDueEveryMinute(minutesUntilAlarm, interval) == minutesUntilAlarm > 0

\* part_002:291-294
preAlarmDue(minutesUntilAlarm, interval) ==
    minutesUntilAlarm > 0 /\ JsRem(minutesUntilAlarm, interval) = 0

\* notAnnounced without the guard.
notAnnouncedAlways(currentTotalMinutes, last) == TRUE

\* part_002:295
notAnnounced(currentTotalMinutes, last) == currentTotalMinutes # last

\* part_002:280-302.  fired and minutes of lastOp are the return value:
\* fired = FALSE is the return of false, otherwise minutes is the number returned.
checkPreAlarm(t) ==
    LET currentTotalMinutes == t.hours * MinutesPerHour + t.minutes
        minutesUntilAlarm == computeMinutesUntilAlarm(t, alarmHours, alarmMinutes)
        fires == /\ preAlarmEnabled /\ alarmEnabled /\ ~alarmTriggered
                 /\ preAlarmDue(minutesUntilAlarm, preAlarmInterval)
                 /\ notAnnounced(currentTotalMinutes, lastPreAlarmMinute)
    IN /\ lastPreAlarmMinute' = IF fires THEN currentTotalMinutes ELSE lastPreAlarmMinute
       /\ preFires' = IF fires THEN Bump(preFires) ELSE preFires
       /\ lastOp' = Op("checkPreAlarm", 0, FALSE, fires,
                       IF fires THEN minutesUntilAlarm ELSE 0, 0, 0)
       /\ UNCHANGED <<alarmEnabled, alarmHours, alarmMinutes, preAlarmEnabled,
                      preAlarmInterval, alarmTriggered, soundVars, currentTime,
                      lastCheckedMinute, chimeTimers, timeToNextAlarm, elapsed,
                      pollTriggers>>
       /\ UNCHANGED envVars

----------------------------------------------------------------------------
(* The polling loop *)

\* minuteChanged without the guard: checkAlarm on every tick.
minuteChangedAlways(currentMinute, last) == TRUE

\* minuteChanged taking the -1 of startup for "nothing to check yet".
minuteChangedAfterStartup(currentMinute, last) ==
    last # NoMinute /\ currentMinute # last

\* minuteChanged comparing the hours alone.
minuteChangedHourly(currentMinute, last) ==
    last = NoMinute \/ currentMinute \div MinutesPerHour # last \div MinutesPerHour

\* index.tsx:138
minuteChanged(currentMinute, last) == currentMinute # last

\* index.tsx:131-145, one run of the interval callback; t is what new Date()
\* returns.  checked and fired of lastOp tell whether checkAlarm was called and
\* what it returned.
poll(t) ==
    \E outcome \in AudioOutcomes :
        LET currentMinute == t.hours * MinutesPerHour + t.minutes
            newMinute == currentMinute # MinuteOfDay(currentTime)
            checks == minuteChanged(currentMinute, lastCheckedMinute)
            fires == checks /\ checkAlarm(t)
        IN /\ fires => CanSchedule(outcome)
           /\ ~fires => outcome = "ok"
           /\ currentTime' = t
           /\ lastCheckedMinute' = IF checks THEN currentMinute ELSE lastCheckedMinute
           /\ IF fires
              THEN triggerAlarmBody(outcome)
              ELSE UNCHANGED <<alarmTriggered, soundVars, chimeTimers>>
           /\ pollTriggers' = IF fires
                              THEN (IF newMinute THEN 1 ELSE Bump(pollTriggers))
                              ELSE (IF newMinute THEN 0 ELSE pollTriggers)
           /\ preFires' = IF newMinute THEN 0 ELSE preFires
           /\ lastOp' = [Op("poll", 0, checks, fires, 0, 0, 0)
                            EXCEPT !.threw = fires /\ Thrown(outcome)]
           /\ UNCHANGED <<alarmEnabled, alarmHours, alarmMinutes, preAlarmEnabled,
                          preAlarmInterval, lastPreAlarmMinute, timeToNextAlarm>>
           /\ UNCHANGED envVars

\* The clock: a tick reads a time later than the last one, at most
\* MaxMinuteJump minutes later.
TickSeconds == {0, SecondsPerMinute - 1}

Tick ==
    \E d \in 0..MaxMinuteJump, s \in TickSeconds :
        /\ elapsed + d <= MaxElapsed
        /\ d = 0 => s > currentTime.seconds
        /\ elapsed' = elapsed + d
        /\ poll(Advance(currentTime, d, s))

----------------------------------------------------------------------------
(* The polling loop with the pre-alarm *)

\* part_002:280-302, the return value of checkPreAlarm(t) called while
\* alarmTriggered has the value triggered: fires = FALSE is the return of
\* false, otherwise minutes is the number returned.
checkPreAlarmReturns(t, triggered) ==
    LET currentTotalMinutes == t.hours * MinutesPerHour + t.minutes
        minutesUntilAlarm == computeMinutesUntilAlarm(t, alarmHours, alarmMinutes)
        fires == /\ preAlarmEnabled /\ alarmEnabled /\ ~triggered
                 /\ preAlarmDue(minutesUntilAlarm, preAlarmInterval)
                 /\ notAnnounced(currentTotalMinutes, lastPreAlarmMinute)
    IN [fires |-> fires, minutes |-> IF fires THEN minutesUntilAlarm ELSE 0]

\* The interval callback of the clock that announces the pre-alarm: that of
\* index.tsx:131-145 with the pre-alarm detector called after the match
\* detector, inside the minute guard, on the time just stored.  checked and
\* fired of lastOp are those of checkAlarm; arg is 1 when checkPreAlarm
\* returned a number, which is minutes.
pollWithPreAlarm(t) ==
    LET currentMinute == t.hours * MinutesPerHour + t.minutes
        newMinute == currentMinute # MinuteOfDay(currentTime)
        checks == minuteChanged(currentMinute, lastCheckedMinute)
        fires == checks /\ checkAlarm(t)
        announced == IF checks
                     THEN checkPreAlarmReturns(t, alarmTriggered \/ fires)
                     ELSE [fires |-> FALSE, minutes |-> 0]
    IN /\ fires => CanSchedule("ok")
       /\ currentTime' = t
       /\ lastCheckedMinute' = IF checks THEN currentMinute ELSE lastCheckedMinute
       /\ IF fires
          THEN triggerAlarmBody("ok")
          ELSE UNCHANGED <<alarmTriggered, soundVars, chimeTimers>>
       /\ lastPreAlarmMinute' = IF announced.fires THEN currentMinute ELSE lastPreAlarmMinute
       /\ pollTriggers' = IF fires
                          THEN (IF newMinute THEN 1 ELSE Bump(pollTriggers))
                          ELSE (IF newMinute THEN 0 ELSE pollTriggers)
       /\ preFires' = IF announced.fires
                      THEN (IF newMinute THEN 1 ELSE Bump(preFires))
                      ELSE (IF newMinute THEN 0 ELSE preFires)
       /\ lastOp' = Op("pollWithPreAlarm", IF announced.fires THEN 1 ELSE 0, checks, fires,
                       announced.minutes, 0, 0)
       /\ UNCHANGED <<alarmEnabled, alarmHours, alarmMinutes, preAlarmEnabled,
                      preAlarmInterval, timeToNextAlarm>>
       /\ UNCHANGED envVars

TickWithPreAlarm ==
    \E d \in 0..MaxMinuteJump, s \in TickSeconds :
        /\ elapsed + d <= MaxElapsed
        /\ d = 0 => s > currentTime.seconds
        /\ elapsed' = elapsed + d
        /\ pollWithPreAlarm(Advance(currentTime, d, s))

----------------------------------------------------------------------------
(* JSON and JavaScript values *)

\* A JavaScript value: its typeof (null has a type of its own here) and payload.
JsValue(type, num, bool, text) == [type |-> type, num |-> num, bool |-> bool, text |-> text]
Num(n) == JsValue("number", n, FALSE, "")
Bool(b) == JsValue("boolean", 0, b, "")
Str(t) == JsValue("string", 0, FALSE, t)
JsNull == JsValue("null", 0, FALSE, "")
Undefined == JsValue("undefined", 0, FALSE, "")

\* The numbers whose JSON text the model can read.
JsonNumbers == (-MaxStoredNumber)..MaxStoredNumber

\* The texts of JSON strings and of JSON objects the model can read, with
\* what they denote.  An object is the function from its keys to their values.
JsonStrings == {<<"\"x\"", "x">>, <<"\"7\"", "7">>}

SettingsFields == {"enabled", "hours", "minutes"}

Object(enabled, hours, minutes) ==
    [type |-> "object",
     fields |-> [f \in SettingsFields |->
                    CASE f = "enabled" -> enabled
                      [] f = "hours" -> hours
                      [] f = "minutes" -> minutes]]

JsonObjects ==
    {<<"{}", Object(Undefined, Undefined, Undefined)>>,
     <<"{\"enabled\":true,\"hours\":25,\"minutes\":75}", Object(Bool(TRUE), Num(25), Num(75))>>,
     <<"{\"enabled\":true,\"hours\":11,\"minutes\":59}", Object(Bool(TRUE), Num(11), Num(59))>>,
     <<"{\"enabled\":false,\"hours\":-5,\"minutes\":-1}", Object(Bool(FALSE), Num(-5), Num(-1))>>,
     <<"{\"enabled\":\"yes\",\"hours\":\"7\",\"minutes\":null}", Object(Str("yes"), Str("7"), JsNull)>>,
     <<"{\"enabled\":1,\"hours\":3}", Object(Num(1), Num(3), Undefined)>>}

\* JSON.parse: ok = FALSE is the SyntaxError.
JSONparse(text) ==
    IF text = "true" THEN [ok |-> TRUE, value |-> Bool(TRUE)]
    ELSE IF text = "false" THEN [ok |-> TRUE, value |-> Bool(FALSE)]
    ELSE IF text = "null" THEN [ok |-> TRUE, value |-> JsNull]
    ELSE IF \E n \in JsonNumbers : ToString(n) = text
    THEN [ok |-> TRUE, value |-> Num(CHOOSE n \in JsonNumbers : ToString(n) = text)]
    ELSE IF \E s \in JsonStrings : s[1] = text
    THEN [ok |-> TRUE, value |-> Str((CHOOSE s \in JsonStrings : s[1] = text)[2])]
    ELSE IF \E o \in JsonObjects : o[1] = text
    THEN [ok |-> TRUE, value |-> (CHOOSE o \in JsonObjects : o[1] = text)[2]]
    ELSE [ok |-> FALSE]

\* JSON.stringify of a number, a boolean, a string or null.
JSONstringify(v) ==
    CASE v.type = "number" -> ToString(v.num)
      [] v.type = "boolean" -> (IF v.bool THEN "true" ELSE "false")
      [] v.type = "string" -> (CHOOSE s \in JsonStrings : s[2] = v.text)[1]
      [] v.type = "null" -> "null"

----------------------------------------------------------------------------
(* The signals kept in the query string *)

UrlKeys == {"alarmEnabled", "alarmHours", "alarmMinutes", "preAlarmEnabled",
            "preAlarmInterval"}

\* part_002:11-15, the initialValue of each urlSignal
InitialValue(key) ==
    CASE key = "alarmEnabled" -> Bool(FALSE)
      [] key = "alarmHours" -> Num(DefaultAlarmHours)
      [] key = "alarmMinutes" -> Num(DefaultAlarmMinutes)
      [] key = "preAlarmEnabled" -> Bool(FALSE)
      [] key = "preAlarmInterval" -> Num(DefaultPreAlarmInterval)

\* params.get(key): <<>> is null, <<text>> the text of the parameter.  The
\* query string u has the keys present as its domain.
ParamsGet(u, key) == IF key \in DOMAIN u THEN <<u[key]>> ELSE <<>>

\* part_001:4-16, the value the signal starts with.  The parsed value is
\* taken as it is, whatever its type.
urlSignal(saved, initialValue) ==
    IF saved # <<>>
    THEN LET parsed == JSONparse(saved[1])
         IN IF parsed.ok THEN parsed.value ELSE initialValue
    ELSE initialValue

\* The value of the signal of key.
SignalValue(key) ==
    CASE key = "alarmEnabled" -> Bool(alarmEnabled)
      [] key = "alarmHours" -> Num(alarmHours)
      [] key = "alarmMinutes" -> Num(alarmMinutes)
      [] key = "preAlarmEnabled" -> Bool(preAlarmEnabled)
      [] key = "preAlarmInterval" -> Num(preAlarmInterval)

\* params.delete(key) and params.set(key, text)
ParamsDelete(u, key) == [k \in DOMAIN u \ {key} |-> u[k]]
ParamsSet(u, key, text) == [k \in DOMAIN u \cup {key} |-> IF k = key THEN text ELSE u[k]]

\* UrlWritten setting the parameter when the value is the initial one and
\* deleting it otherwise.
UrlWrittenInverted(u, key, value) ==
    IF value # InitialValue(key)
    THEN ParamsDelete(u, key)
    ELSE ParamsSet(u, key, JSONstringify(value))

\* part_001:29-36, the query string the timer callback of key leaves
UrlWritten(u, key, value) ==
    IF value = InitialValue(key)
    THEN ParamsDelete(u, key)
    ELSE ParamsSet(u, key, JSONstringify(value))

\* part_001:21-38.  The effect runs at construction and after every change
\* of the signal and leaves one timer of 100 ms; the callback of a timer
\* rewrites the parameter from the value the signal has by then.  A timer is
\* pending whenever the parameter is not what the callback would write.
urlWrite(key) ==
    /\ UrlWritten(url, key, SignalValue(key)) # url
    /\ url' = UrlWritten(url, key, SignalValue(key))
    /\ lastOp' = [PlainOp("urlWrite") EXCEPT !.key = key]
    /\ UNCHANGED <<alarmVars, currentTime, lastCheckedMinute, chimeTimers, audioFails,
                   wakeVars, timeToNextAlarm, loaded, elapsed, pollTriggers, preFires>>

\* The query string has every parameter as its timer would write it.
UrlFresh(u, config) == \A key \in UrlKeys : UrlWritten(u, key, config[key]) = u

\* The page is loaded again: the module is evaluated anew (part_002:11-26 and
\* 275, index.tsx:89-92), each urlSignal reading its parameter; the timers and
\* the audio of the old page are gone.  The clock reads the same minute.
reload ==
    /\ \A key \in UrlKeys :
           urlSignal(ParamsGet(url, key), InitialValue(key)).type = InitialValue(key).type
    /\ alarmEnabled' = urlSignal(ParamsGet(url, "alarmEnabled"), InitialValue("alarmEnabled")).bool
    /\ alarmHours' = urlSignal(ParamsGet(url, "alarmHours"), InitialValue("alarmHours")).num
    /\ alarmMinutes' = urlSignal(ParamsGet(url, "alarmMinutes"), InitialValue("alarmMinutes")).num
    /\ preAlarmEnabled' =
           urlSignal(ParamsGet(url, "preAlarmEnabled"), InitialValue("preAlarmEnabled")).bool
    /\ preAlarmInterval' =
           urlSignal(ParamsGet(url, "preAlarmInterval"), InitialValue("preAlarmInterval")).num
    /\ alarmTriggered' = FALSE
    /\ audioContext' = FALSE
    /\ oscillatorNode' = FALSE
    /\ gainNode' = FALSE
    /\ lastPreAlarmMinute' = NoMinute
    /\ lastCheckedMinute' = NoMinute
    /\ chimeTimers' = 0
    /\ lastOp' = PlainOp("reload")
    /\ wakeLockEnabled' = FALSE
    /\ wakeLockSentinel' = NoSentinel
    /\ pendingRequests' = 0
    /\ pendingReleases' = 0
    /\ UNCHANGED <<currentTime, url, audioFails, sentinels, visibilityState, lostToSystem,
                   timeToNextAlarm, loaded, elapsed, pollTriggers, preFires>>

----------------------------------------------------------------------------
(* The alarm and its poll *)

StartTimes == {Time(6, 23, 0), Time(6, 58, 0), Time(18, 58, 0), Time(23, 58, 0)}
HourInputs == {0, 7, 19, -5}
MinuteInputs == {0, 59, 60, -1}
IntervalInputs == {0, 1, 5}

InitAlarm ==
    /\ alarmEnabled = FALSE
    /\ alarmHours = DefaultAlarmHours
    /\ alarmMinutes = DefaultAlarmMinutes
    /\ preAlarmEnabled = FALSE
    /\ preAlarmInterval = DefaultPreAlarmInterval
    /\ alarmTriggered = FALSE
    /\ audioContext = FALSE
    /\ oscillatorNode = FALSE
    /\ gainNode = FALSE
    /\ lastPreAlarmMinute = NoMinute
    /\ chimeTimers = 0

NoTimeToNextAlarm == [isNull |-> TRUE]

NothingLoaded == [done |-> FALSE]

\* An empty query string
NoParams == [key \in {} |-> ""]

InitOp ==
    [name |-> "init", pre |-> progVars, run |-> 1, prevStopWork |-> 0, arg |-> 0,
     checked |-> FALSE, fired |-> FALSE, minutes |-> 0, stopCalls |-> 0,
     stopWork |-> 0, threw |-> FALSE, key |-> "", text |-> <<>>]

InitHistory ==
    /\ timeToNextAlarm = NoTimeToNextAlarm
    /\ loaded = NothingLoaded
    /\ elapsed = 0
    /\ pollTriggers = 0
    /\ preFires = 0
    /\ lastOp = InitOp

Init ==
    /\ InitAlarm
    /\ url = NoParams
    /\ audioFails = FALSE
    /\ InitWakeLock
    /\ currentTime \in StartTimes
    /\ lastCheckedMinute = NoMinute
    /\ InitHistory

Next ==
    \/ Tick
    \/ triggerAlarm
    \/ dismissAlarm
    \/ testAlarm
    \/ toggleAlarm
    \/ togglePreAlarm
    \/ \E value \in IntervalInputs : handleIntervalChange(value)
    \/ \E hours \in HourInputs : setAlarmHours(hours)
    \/ \E minutes \in MinuteInputs : setAlarmMinutes(minutes)
    \/ checkPreAlarm(currentTime)
    \/ chimeTimeout

Spec == Init /\ [][Next]_vars

----------------------------------------------------------------------------
(* The time-to-alarm display, over sampled alarm times and clock readings *)

EdgeWidth == 1     \* minutes and seconds are sampled this close to 0 and to 59

Edge(n) == {x \in 0..(n - 1) : x <= EdgeWidth \/ x >= n - 1 - EdgeWidth}

\* part_002:385-386 and 433-438: AlarmTimeInput reads the computed signal.
\* minuteDelta is the value of part_002:54-71, secondCompare that of the
\* variant of part_002:971-1017.
readTimeToNextAlarm ==
    /\ timeToNextAlarm' =
           IF ~alarmEnabled
           THEN NoTimeToNextAlarm
           ELSE [isNull |-> FALSE,
                 minutesUntilAlarm |-> computeMinutesUntilAlarm(currentTime, alarmHours,
                                                                alarmMinutes),
                 minuteDelta |-> computeTimeToNextAlarm(currentTime, alarmHours, alarmMinutes),
                 secondCompare |-> computeTimeToNextAlarmSeconds(currentTime, alarmHours,
                                                                 alarmMinutes)]
    /\ lastOp' = PlainOp("computeTimeToNextAlarm")
    /\ UNCHANGED <<alarmVars, currentTime, lastCheckedMinute, chimeTimers, elapsed,
                   pollTriggers, preFires>>
    /\ UNCHANGED envVars

InitCalc ==
    /\ alarmEnabled \in BOOLEAN
    /\ alarmHours \in 0..(HoursPerDial - 1)
    /\ alarmMinutes \in Edge(MinutesPerHour)
    /\ preAlarmEnabled = FALSE
    /\ preAlarmInterval = DefaultPreAlarmInterval
    /\ alarmTriggered = FALSE
    /\ audioContext = FALSE
    /\ oscillatorNode = FALSE
    /\ gainNode = FALSE
    /\ lastPreAlarmMinute = NoMinute
    /\ chimeTimers = 0
    /\ url = NoParams
    /\ audioFails = FALSE
    /\ InitWakeLock
    /\ currentTime \in {Time(h, m, sec) : h \in 0..(HoursPerDay - 1),
                                          m \in Edge(MinutesPerHour),
                                          sec \in Edge(SecondsPerMinute)}
    /\ lastCheckedMinute = NoMinute
    /\ InitHistory

NextCalc == readTimeToNextAlarm

SpecCalc == InitCalc /\ [][NextCalc]_vars

----------------------------------------------------------------------------
(* The setters alone, over a wide range of inputs *)

\* Minute inputs next to the multiples of 60, below and above 0..59.
WideMinuteInputs ==
    {k * MinutesPerHour + e : k \in (-MaxWraps)..MaxWraps, e \in (-EdgeWidth)..EdgeWidth}

InitSet ==
    /\ InitAlarm
    /\ url = NoParams
    /\ audioFails = FALSE
    /\ InitWakeLock
    /\ currentTime = Time(6, 58, 0)
    /\ lastCheckedMinute = NoMinute
    /\ InitHistory

\* What the user may leave in an input element.
TimeInputs ==
    {<<"0", "8", ":", "3", "0">>, <<"1", "9", ":", "0", "5">>, <<>>, <<":">>,
     <<"0", "8", ":">>, <<"0", "8">>, <<"0", "8", ":", "c", "d">>,
     <<"a", "b", ":", "3", "0">>, <<"a", "b", ":", "c", "d">>}

NumberInputs ==
    {<<"8">>, <<"1", "9">>, <<"-", "5">>, <<>>, <<"a", "b">>, <<"-">>, <<"8", "a">>}

NextSet ==
    \/ \E hours \in (-MaxHourInput)..MaxHourInput : setAlarmHours(hours)
    \/ \E minutes \in WideMinuteInputs : setAlarmMinutes(minutes)
    \/ \E chars \in TimeInputs : handleTimeChange(chars)
    \/ \E chars \in NumberInputs : handleHoursChange(chars)
    \/ \E chars \in NumberInputs : handleMinutesChange(chars)

SpecSet == InitSet /\ [][NextSet]_vars

----------------------------------------------------------------------------
(* One day, polled every minute, the alarm armed at startup and the user   *)
(* doing nothing but dismissing a ring                                     *)

DayAlarmHours == {0, 7, 11}
DayAlarmMinutes == {0, 59}

\* part_002:630-645: the click and touch handlers that call dismissAlarm are
\* installed while the alarm rings.
dismissRing ==
    /\ alarmTriggered
    /\ dismissAlarm

\* A tick in the current minute or, once this minute has had its tick, in
\* the next one, up to 23:59: every minute of the day is polled.
DayTick ==
    \E d \in 0..1, s \in TickSeconds :
        /\ MinuteOfDay(currentTime) + d < MinutesPerDay
        /\ d = 0 => s > currentTime.seconds
        /\ d = 1 => lastCheckedMinute = MinuteOfDay(currentTime)
        /\ UNCHANGED elapsed
        /\ poll(Advance(currentTime, d, s))

InitDay ==
    /\ alarmEnabled = TRUE
    /\ alarmHours \in DayAlarmHours
    /\ alarmMinutes \in DayAlarmMinutes
    /\ preAlarmEnabled = FALSE
    /\ preAlarmInterval = DefaultPreAlarmInterval
    /\ alarmTriggered = FALSE
    /\ audioContext = FALSE
    /\ oscillatorNode = FALSE
    /\ gainNode = FALSE
    /\ lastPreAlarmMinute = NoMinute
    /\ chimeTimers = 0
    /\ url = NoParams
    /\ audioFails = FALSE
    /\ InitWakeLock
    /\ currentTime = Time(0, 0, 0)
    /\ lastCheckedMinute = NoMinute
    /\ InitHistory

NextDay ==
    \/ DayTick
    \/ dismissRing
    \/ chimeTimeout

SpecDay == InitDay /\ [][NextDay]_vars

----------------------------------------------------------------------------
(* The settings kept in localStorage (the variant of ToggleButton.tsx) *)

\* ToggleButton.tsx:134
DEFAULT_SETTINGS ==
    [enabled |-> FALSE, hours |-> DefaultAlarmHours, minutes |-> DefaultAlarmMinutes]

\* !result of ToggleButton.tsx:149: null, 0, the empty string and false.
Falsy(v) ==
    \/ v.type = "null"
    \/ v.type = "number" /\ v.num = 0
    \/ v.type = "string" /\ v.text = ""
    \/ v.type = "boolean" /\ ~v.bool

\* ToggleButton.tsx:137-162.  saved is localStorage.getItem(...): <<>> is null.
loadAlarmSettings(saved) ==
    IF saved = <<>> \/ saved[1] = ""
    THEN DEFAULT_SETTINGS
    ELSE LET parsed == JSONparse(saved[1])
         IN IF ~parsed.ok
            THEN DEFAULT_SETTINGS
            ELSE LET result == parsed.value
                 IN IF Falsy(result) \/ result.type # "object"
                    THEN DEFAULT_SETTINGS
                    ELSE [enabled |-> IF result.fields["enabled"].type = "boolean"
                                      THEN result.fields["enabled"].bool
                                      ELSE FALSE,
                          hours |-> IF result.fields["hours"].type = "number"
                                    THEN JsRem(result.fields["hours"].num, HoursPerDial)
                                    ELSE DefaultAlarmHours,
                          minutes |-> IF result.fields["minutes"].type = "number"
                                      THEN result.fields["minutes"].num
                                      ELSE DefaultAlarmMinutes]

----------------------------------------------------------------------------
(* The startup loaders, over sampled stored texts *)

StoredTexts ==
    {"7", "25", "-5", "75", "0", "true", "false", "null", "\"x\"", "\"7\"",
     "{", "", "abc"} \cup {o[1] : o \in JsonObjects}

\* The module is evaluated: urlSignal reads the parameter of loaded.key
\* (part_001:4-16) and loadAlarmSettings the stored settings
\* (ToggleButton.tsx:165).
loadStored ==
    /\ ~loaded.done
    /\ loaded' = [done |-> TRUE, key |-> loaded.key, saved |-> loaded.saved,
                  value |-> urlSignal(loaded.saved, InitialValue(loaded.key)),
                  settings |-> loadAlarmSettings(loaded.saved)]
    /\ lastOp' = PlainOp("loadStored")
    /\ UNCHANGED <<alarmVars, currentTime, lastCheckedMinute, chimeTimers, url,
                   audioFails, wakeVars, timeToNextAlarm, elapsed, pollTriggers, preFires>>

InitParse ==
    /\ InitAlarm
    /\ url = NoParams
    /\ audioFails = FALSE
    /\ InitWakeLock
    /\ currentTime = Time(6, 58, 0)
    /\ lastCheckedMinute = NoMinute
    /\ timeToNextAlarm = NoTimeToNextAlarm
    /\ loaded \in {[done |-> FALSE, key |-> key, saved |-> saved] :
                      key \in UrlKeys, saved \in {<<>>} \cup {<<t>> : t \in StoredTexts}}
    /\ elapsed = 0
    /\ pollTriggers = 0
    /\ preFires = 0
    /\ lastOp = InitOp

NextParse == loadStored

SpecParse == InitParse /\ [][NextParse]_vars

----------------------------------------------------------------------------
(* The page with its query string: startup, the user's changes, the writes *)
(* of the urlSignal timers and reloads                                     *)

\* The query string whose parameters are the texts given (<<>>: none).
QueryString(texts) ==
    [key \in {k \in UrlKeys : texts[k] # <<>>} |-> texts[key][1]]

StartUrls ==
    {QueryString([key \in UrlKeys |->
                     CASE key = "alarmEnabled" -> e
                       [] key = "alarmHours" -> h
                       [] key = "alarmMinutes" -> m
                       [] OTHER -> <<>>]) :
        e \in {<<>>, <<"true">>},
        h \in {<<>>, <<"25">>, <<"-5">>, <<"abc">>},
        m \in {<<>>, <<"75">>}}

DragAngles ==
    {h * MinutesPerHour * AngleStepsPerMinute + e :
        h \in {0, HoursPerDial - 1},
        e \in {0, 1, MinutesPerHour * AngleStepsPerMinute - 1}}

InitLoad ==
    /\ url \in StartUrls
    /\ alarmEnabled = urlSignal(ParamsGet(url, "alarmEnabled"), InitialValue("alarmEnabled")).bool
    /\ alarmHours = urlSignal(ParamsGet(url, "alarmHours"), InitialValue("alarmHours")).num
    /\ alarmMinutes = urlSignal(ParamsGet(url, "alarmMinutes"), InitialValue("alarmMinutes")).num
    /\ preAlarmEnabled =
           urlSignal(ParamsGet(url, "preAlarmEnabled"), InitialValue("preAlarmEnabled")).bool
    /\ preAlarmInterval =
           urlSignal(ParamsGet(url, "preAlarmInterval"), InitialValue("preAlarmInterval")).num
    /\ alarmTriggered = FALSE
    /\ audioContext = FALSE
    /\ oscillatorNode = FALSE
    /\ gainNode = FALSE
    /\ lastPreAlarmMinute = NoMinute
    /\ chimeTimers = 0
    /\ audioFails = FALSE
    /\ InitWakeLock
    /\ currentTime = Time(6, 58, 0)
    /\ lastCheckedMinute = NoMinute
    /\ InitHistory

NextLoad ==
    \/ reload
    \/ \E key \in UrlKeys : urlWrite(key)
    \/ toggleAlarm
    \/ \E hours \in {0, -5} : setAlarmHours(hours)
    \/ \E minutes \in {59, 60} : setAlarmMinutes(minutes)
    \/ \E a \in DragAngles : updateAlarmFromAngle(a)

SpecLoad == InitLoad /\ [][NextLoad]_vars

----------------------------------------------------------------------------
(* The ring where the Web Audio calls may throw *)

InitSound ==
    /\ InitAlarm
    /\ url = NoParams
    /\ audioFails = TRUE
    /\ InitWakeLock
    /\ currentTime = Time(6, 58, 0)
    /\ lastCheckedMinute = NoMinute
    /\ InitHistory

NextSound ==
    \/ Tick
    \/ triggerAlarm
    \/ testAlarm
    \/ dismissAlarm
    \/ toggleAlarm
    \/ chimeTimeout

SpecSound == InitSound /\ [][NextSound]_vars

----------------------------------------------------------------------------
(* Properties *)

PreAlarmVars == SubSeq(lastOp.pre, 1, 10)
TwelveHoursInSeconds == HoursPerDial * MinutesPerHour * SecondsPerMinute

\* The two minutes of the day a 12-hour alarm time denotes.
AlarmOccurrences(h, m) ==
    {h * MinutesPerHour + m, (h + HoursPerDial) * MinutesPerHour + m}

AtAlarmTime == MinuteOfDay(currentTime) \in AlarmOccurrences(alarmHours, alarmMinutes)

InRange(x, lo, hi) == lo <= x /\ x <= hi

\* C1 as stated: for every alarm time and every current time the
\* seconds-until-alarm value is >= 0 and strictly below 12*3600 = 43200.
C1_SecondsBelowTwelveHours ==
    ~timeToNextAlarm.isNull =>
        /\ InRange(timeToNextAlarm.minuteDelta.total, 0, TwelveHoursInSeconds - 1)
        /\ InRange(timeToNextAlarm.secondCompare.total, 0, TwelveHoursInSeconds - 1)

\* C1 amended: the seconds-until-alarm value is >= 0 and at most 12*3600 =
\* 43200; it is 43200 at second 0 of a minute that matches the alarm time.
C1_SecondsAtMostTwelveHours ==
    ~timeToNextAlarm.isNull =>
        /\ InRange(timeToNextAlarm.minuteDelta.total, 0, TwelveHoursInSeconds)
        /\ InRange(timeToNextAlarm.secondCompare.total, 0, TwelveHoursInSeconds)

C1_WitnessFullTwelveHours ==
    /\ ~timeToNextAlarm.isNull
    /\ AtAlarmTime
    /\ currentTime.seconds = 0
    /\ timeToNextAlarm.minuteDelta.total = TwelveHoursInSeconds

\* C2: within one minute of the clock the poll invokes triggerAlarm at most
\* once, however many ticks fall into the minute and also when the ring is
\* dismissed and the alarm re-enabled within that minute.
C2_PollTriggersOncePerMinute == pollTriggers <= 1

\* A later tick of the minute that fired: the ring was dismissed, the alarm is
\* armed again and the time still matches, and the poll did not check again.
C2_WitnessRearmedSameMinute ==
    /\ lastOp.name = "poll"
    /\ ~lastOp.checked
    /\ pollTriggers = 1
    /\ alarmEnabled /\ ~alarmTriggered
    /\ AtAlarmTime

\* C3 as stated: with the alarm armed at (h, m) and the user only dismissing,
\* the poll fires at h:m and also at (h+12):m of the same day: the tick that
\* enters either minute triggers the alarm, unless the earlier ring is still
\* sounding.
C3_FiresAtBothOccurrences ==
    (lastOp.name = "poll" /\ lastOp.checked /\ AtAlarmTime /\ ~PreTriggered)
        => lastOp.fired

\* C3 amended: with the alarm armed at (h, m) from 00:00 on and the user only
\* dismissing, the poll fires at h:m and at no other minute of that day, not
\* at (h+12):m either: by then the alarm still rings or dismissAlarm has
\* disarmed it.
C3_FiresAtFirstOccurrenceOnly ==
    (lastOp.name = "poll" /\ lastOp.checked) =>
        (lastOp.fired <=> (currentTime.hours = alarmHours
                           /\ currentTime.minutes = alarmMinutes))

C3_WitnessSilentSecondOccurrence ==
    /\ lastOp.name = "poll" /\ lastOp.checked /\ ~lastOp.fired
    /\ currentTime.hours = alarmHours + HoursPerDial
    /\ currentTime.minutes = alarmMinutes
    /\ ~alarmEnabled /\ ~alarmTriggered

\* C4: checkAlarm returns false whenever alarmEnabled is false or
\* alarmTriggered is true; otherwise it returns true exactly at the two
\* minutes h:m and (h+12):m of the alarm time (h, m); it changes no state (a
\* poll whose checkAlarm returns false leaves the alarm as it was, one whose
\* checkAlarm returns true changes only what triggerAlarm sets).
C4_CheckAlarmContract ==
    (lastOp.name = "poll" /\ lastOp.checked) =>
        /\ lastOp.fired <=> (PreEnabled /\ ~PreTriggered /\ AtAlarmTime)
        /\ ~lastOp.fired => alarmVars = PreAlarmVars
        /\ lastOp.fired =>
               [alarmVars EXCEPT ![6] = FALSE, ![7] = PreAudioContext,
                                 ![9] = lastOp.pre[9]] = PreAlarmVars

C4_WitnessAfternoonMatch ==
    /\ lastOp.name = "poll" /\ lastOp.checked /\ lastOp.fired
    /\ alarmHours = DefaultAlarmHours /\ alarmMinutes = DefaultAlarmMinutes
    /\ currentTime.hours = DefaultAlarmHours + HoursPerDial
    /\ currentTime.minutes = 0

\* C5: checkPreAlarm returns false unless preAlarmEnabled and alarmEnabled are
\* true and alarmTriggered is false; then it returns minutesUntilAlarm exactly
\* when minutesUntilAlarm > 0, minutesUntilAlarm mod preAlarmInterval = 0 and
\* the current minute-of-day differs from lastPreAlarmMinute, and sets
\* lastPreAlarmMinute to the current minute-of-day; otherwise it returns false
\* and leaves lastPreAlarmMinute unchanged.  Nothing else changes.
C5_CheckPreAlarmContract ==
    lastOp.name = "checkPreAlarm" =>
        LET m == computeMinutesUntilAlarm(currentTime, PreHours, PreMinutes)
            shouldFire == /\ PrePreAlarmEnabled /\ PreEnabled /\ ~PreTriggered
                          /\ m > 0
                          /\ \E q \in 1..m : q * PreInterval = m
                          /\ MinuteOfDay(currentTime) # PreLastPreAlarmMinute
        IN /\ lastOp.fired <=> shouldFire
           /\ lastOp.fired => /\ lastOp.minutes = m
                              /\ lastPreAlarmMinute = MinuteOfDay(currentTime)
           /\ ~lastOp.fired => lastPreAlarmMinute = PreLastPreAlarmMinute
           /\ [progVars EXCEPT ![10] = PreLastPreAlarmMinute] = lastOp.pre

\* 35 minutes before the alarm, interval 5: the call returns 35.
C5_WitnessThirtyFive ==
    /\ lastOp.name = "checkPreAlarm" /\ lastOp.fired
    /\ lastOp.minutes = 35
    /\ preAlarmInterval = DefaultPreAlarmInterval

\* C6: among the checkPreAlarm calls made within one minute of the clock at
\* most one returns a minutes-remaining value; every call after a firing one
\* returns false, also if the alarm time or the interval changed in between.
C6_PreAlarmOncePerMinute ==
    /\ preFires <= 1
    /\ (lastOp.name = "checkPreAlarm" /\ lastOp.fired) => preFires = 1

\* A call, after a firing one in this minute, that is due for the present
\* alarm time and interval and still returns false.
C6_WitnessSuppressedRepeat ==
    /\ lastOp.name = "checkPreAlarm" /\ ~lastOp.fired
    /\ preFires = 1
    /\ preAlarmEnabled /\ alarmEnabled /\ ~alarmTriggered
    /\ preAlarmDue(computeMinutesUntilAlarm(currentTime, alarmHours, alarmMinutes),
                   preAlarmInterval)
    /\ preAlarmInterval # DefaultPreAlarmInterval

\* C7: calling dismissAlarm twice in a row leaves exactly the state that one
\* call leaves, and the second call has no sound handle left to stop.
C7_DismissTwiceIsDismissOnce ==
    (lastOp.name = "dismissAlarm" /\ lastOp.run >= 2) =>
        /\ progVars = lastOp.pre
        /\ lastOp.stopWork = 0

\* The first of the two calls silenced a ring (it released two handles).
C7_WitnessSecondDismiss ==
    /\ lastOp.name = "dismissAlarm" /\ lastOp.run = 2
    /\ lastOp.prevStopWork = 2
    /\ OpenHandles = 0

\* C8: dismissAlarm called while the alarm is not ringing is a no-op:
\* alarmEnabled, alarmTriggered, the alarm time and the sound handles are
\* unchanged, so an armed alarm stays armed.
C8_DismissWhileIdleIsNoOp ==
    (lastOp.name = "dismissAlarm" /\ ~PreTriggered) => progVars = lastOp.pre

\* C9: toggleAlarm on a ringing, enabled alarm yields alarmTriggered = false
\* and alarmEnabled = false, invokes stopAlarmSound exactly once and leaves
\* no active sound.
C9_DisableWhileRinging ==
    (lastOp.name = "toggleAlarm" /\ PreEnabled /\ PreTriggered) =>
        /\ ~alarmTriggered
        /\ ~alarmEnabled
        /\ lastOp.stopCalls = 1
        /\ OpenHandles = 0

C9_WitnessRingSilencedByToggle ==
    /\ lastOp.name = "toggleAlarm" /\ PreEnabled /\ PreTriggered
    /\ PreAudioContext
    /\ lastOp.stopWork = 2

\* C10: setAlarmHours(h) leaves alarmHours = h modulo 12 in 0..11 for every
\* integer h, setAlarmMinutes(m) leaves alarmMinutes = m modulo 60 in 0..59,
\* and neither changes any other state.
Abs(x) == IF x < 0 THEN -x ELSE x

IsModulo(r, x, n) ==
    /\ InRange(r, 0, n - 1)
    /\ \E q \in (-Abs(x) - 1)..(Abs(x) + 1) : x = q * n + r

C10_SettersWrap ==
    /\ lastOp.name = "setAlarmHours" =>
           /\ IsModulo(alarmHours, lastOp.arg, HoursPerDial)
           /\ [progVars EXCEPT ![2] = PreHours] = lastOp.pre
    /\ lastOp.name = "setAlarmMinutes" =>
           /\ IsModulo(alarmMinutes, lastOp.arg, MinutesPerHour)
           /\ [progVars EXCEPT ![3] = PreMinutes] = lastOp.pre

C10_WitnessNegativeHour ==
    /\ lastOp.name = "setAlarmHours"
    /\ lastOp.arg = -13
    /\ alarmHours = 11

PreGainNode == lastOp.pre[9]
PreCurrentTime == lastOp.pre[11]
PreLastCheckedMinute == lastOp.pre[12]
PreChimeTimers == lastOp.pre[13]
PreUrl == lastOp.pre[14]

\* C11: in every reachable state (after the startup load from the stored
\* parameters, after setAlarmHours and setAlarmMinutes and after every update
\* from the alarm hand) alarmHours is an integer in 0..11 and alarmMinutes an
\* integer in 0..59.
C11_AlarmTimeInRange ==
    /\ InRange(alarmHours, 0, HoursPerDial - 1)
    /\ InRange(alarmMinutes, 0, MinutesPerHour - 1)

\* C12: a stored text that is missing, is not JSON or parses to a value of
\* another type or shape than the field's yields the default of the field
\* (enabled = false, hour = 7, minute = 0), for urlSignal and for
\* loadAlarmSettings alike.
StoredValue == IF loaded.saved = <<>> THEN [ok |-> FALSE] ELSE JSONparse(loaded.saved[1])

FieldIs(field, type) ==
    /\ StoredValue.ok
    /\ StoredValue.value.type = "object"
    /\ StoredValue.value.fields[field].type = type

C12_BadConfigYieldsDefaults ==
    loaded.done =>
        /\ (~StoredValue.ok \/ StoredValue.value.type # InitialValue(loaded.key).type)
               => loaded.value = InitialValue(loaded.key)
        /\ ~FieldIs("enabled", "boolean") => loaded.settings.enabled = FALSE
        /\ ~FieldIs("hours", "number") => loaded.settings.hours = DefaultAlarmHours
        /\ ~FieldIs("minutes", "number") => loaded.settings.minutes = DefaultAlarmMinutes

\* C13: computeMinutesUntilAlarm returns, for the current minute-of-day c and
\* the alarm (h, m), the distance from c to the smallest of h*60+m and
\* (h+12)*60+m that is strictly greater than c, or 1440 - c + (h*60+m) when
\* neither is; the result lies in 1..720 and is never 0.
Least(S) == CHOOSE x \in S : \A y \in S : x <= y

C13_MinutesToNextOccurrence ==
    ~timeToNextAlarm.isNull =>
        LET c == MinuteOfDay(currentTime)
            later == {x \in AlarmOccurrences(alarmHours, alarmMinutes) : x > c}
            expected == IF later # {}
                        THEN Least(later) - c
                        ELSE MinutesPerDay - c + (alarmHours * MinutesPerHour + alarmMinutes)
        IN /\ timeToNextAlarm.minutesUntilAlarm = expected
           /\ InRange(timeToNextAlarm.minutesUntilAlarm, 1, HoursPerDial * MinutesPerHour)

\* At the second occurrence of the day neither candidate is later: the
\* result is the 720 minutes to tomorrow's first one.
C13_WitnessWrapsToTomorrow ==
    /\ ~timeToNextAlarm.isNull
    /\ MinuteOfDay(currentTime) = (alarmHours + HoursPerDial) * MinutesPerHour + alarmMinutes
    /\ timeToNextAlarm.minutesUntilAlarm = HoursPerDial * MinutesPerHour

MinutesUntilAlarmNow == computeMinutesUntilAlarm(currentTime, alarmHours, alarmMinutes)
MinutesUntilAlarmBefore == computeMinutesUntilAlarm(PreCurrentTime, alarmHours, alarmMinutes)

\* The tick moved the clock into the minute of the alarm.
EnteredAlarmMinute ==
    /\ lastOp.name = "poll"
    /\ AtAlarmTime
    /\ MinuteOfDay(PreCurrentTime) = MinuteOfDay(currentTime) - 1

\* C14 as stated: when the clock moves from the minute before the alarm into
\* the alarm's minute, minutesUntilAlarm goes from 1 to 0: at a minute at
\* which the time comparison of the match detector holds it is 0.
C14_ZeroAtAlarmMinute ==
    EnteredAlarmMinute =>
        /\ MinutesUntilAlarmBefore = 1
        /\ MinutesUntilAlarmNow = 0

\* C14 amended: when the clock moves from the minute before the alarm into
\* the alarm's minute, minutesUntilAlarm goes from 1 to 720: at a minute at
\* which the time comparison of the match detector holds it is the 720
\* minutes to the next occurrence, never 0.
C14_TwelveHoursAtAlarmMinute ==
    /\ EnteredAlarmMinute => MinutesUntilAlarmBefore = 1
    /\ (lastOp.name = "poll" /\ AtAlarmTime) =>
           MinutesUntilAlarmNow = HoursPerDial * MinutesPerHour

\* Alarm 07:00, the tick from 06:59 into 07:00 that fires it.
C14_WitnessSevenOClock ==
    /\ EnteredAlarmMinute
    /\ lastOp.fired
    /\ alarmHours = DefaultAlarmHours /\ alarmMinutes = DefaultAlarmMinutes
    /\ currentTime.hours = DefaultAlarmHours /\ currentTime.minutes = 0

\* C15: triggerAlarm and testAlarm called while the alarm rings change
\* nothing: alarmTriggered stays true, alarmEnabled and the alarm time stay,
\* no AudioContext is created and no chime chain started.
C15_TriggerWhileRingingIsNoOp ==
    (lastOp.name \in {"triggerAlarm", "testAlarm"} /\ PreTriggered) =>
        progVars = lastOp.pre

\* C16: once dismissAlarm has returned no repeat timer of the chime pattern
\* is pending.
C16_DismissLeavesNoTimer ==
    lastOp.name = "dismissAlarm" => chimeTimers = 0

\* The alarm config as the values of its five signals, now and before the
\* last operation.
Config == [key \in UrlKeys |-> SignalValue(key)]

PreConfig ==
    [key \in UrlKeys |->
        CASE key = "alarmEnabled" -> Bool(PreEnabled)
          [] key = "alarmHours" -> Num(PreHours)
          [] key = "alarmMinutes" -> Num(PreMinutes)
          [] key = "preAlarmEnabled" -> Bool(PrePreAlarmEnabled)
          [] key = "preAlarmInterval" -> Num(PreInterval)]

\* C17 as stated: every mutation of the alarm config is in the persistent
\* store at once, so a reload at any moment restores the config as it was.
C17_ReloadRestoresConfig ==
    lastOp.name = "reload" => Config = PreConfig

\* C17 amended: a mutation of the alarm config is written to the query
\* string by the timer of its signal, 100 ms after the last change, not at
\* once: after the write the parameter reads back as the value of the
\* signal, and a reload restores the config when no write was due; a
\* reload before the write restores what the query string still held.
C17_ReloadRestoresWrittenConfig ==
    /\ lastOp.name = "urlWrite" =>
           urlSignal(ParamsGet(url, lastOp.key), InitialValue(lastOp.key))
               = SignalValue(lastOp.key)
    /\ (lastOp.name = "reload" /\ UrlFresh(PreUrl, PreConfig)) => Config = PreConfig

\* A reload that restored an hour the user had set and the timer written.
C17_WitnessReloadAfterWrite ==
    /\ lastOp.name = "reload"
    /\ UrlFresh(PreUrl, PreConfig)
    /\ alarmHours = 0
    /\ ParamsGet(url, "alarmHours") = <<"0">>

\* C18: when the start of the alarm sound fails inside triggerAlarm or
\* testAlarm (the creation of the AudioContext or its setup throws), a later
\* dismissAlarm does not throw and leaves alarmTriggered = false and every
\* sound handle null, so alarmTriggered is not stuck at true.
C18_FailedStartIsDismissable ==
    lastOp.name = "dismissAlarm" =>
        /\ ~lastOp.threw
        /\ ~alarmTriggered
        /\ OpenHandles = 0

\* The dismissed ring had its context but no gain node: its setup had thrown.
C18_WitnessDismissAfterFailedSetup ==
    /\ lastOp.name = "dismissAlarm"
    /\ PreTriggered /\ PreAudioContext /\ ~PreGainNode
    /\ OpenHandles = 0

\* C19: when the hour or the minute of an input is not a number (NaN) the
\* handler calls no setter and alarmHours and alarmMinutes keep their values;
\* in the handler of the single time input a NaN in either part leaves both
\* unchanged; no exception is raised.
HoursPart == NumberOf(Split(lastOp.text), 1)
MinutesPart == NumberOf(Split(lastOp.text), 2)

C19_NaNInputIgnored ==
    /\ (lastOp.name = "handleTimeChange" /\ (HoursPart.isNaN \/ MinutesPart.isNaN)) =>
           /\ ~lastOp.fired /\ ~lastOp.threw
           /\ progVars = lastOp.pre
    /\ (lastOp.name \in {"handleHoursChange", "handleMinutesChange"}
            /\ parseInt(lastOp.text).isNaN) =>
           /\ ~lastOp.fired /\ ~lastOp.threw
           /\ progVars = lastOp.pre

\* A good hour with a minute that is not a number, on an alarm set to
\* another hour: both fields stay.
C19_WitnessBadMinute ==
    /\ lastOp.name = "handleTimeChange"
    /\ ~HoursPart.isNaN /\ MinutesPart.isNaN
    /\ HoursPart.num # alarmHours

\* C20: at the first tick of a minute at which the alarm is enabled, not
\* ringing and (hour mod 12, minute) is the alarm time, the tick sets
\* alarmTriggered = true and starts the sound, the very first tick after
\* startup (lastCheckedMinute = -1) included; a further tick of the same
\* minute checks nothing and changes nothing.
FirstTickOfMinute ==
    \/ PreLastCheckedMinute = NoMinute
    \/ MinuteOfDay(PreCurrentTime) # MinuteOfDay(currentTime)

C20_FirstTickFires ==
    lastOp.name = "poll" =>
        /\ (FirstTickOfMinute /\ PreEnabled /\ ~PreTriggered /\ AtAlarmTime) =>
               /\ lastOp.fired
               /\ alarmTriggered
               /\ audioContext /\ gainNode
               /\ chimeTimers = PreChimeTimers + (IF PreAudioContext THEN 0 ELSE 1)
        /\ ~FirstTickOfMinute =>
               /\ ~lastOp.checked /\ ~lastOp.fired
               /\ alarmVars = PreAlarmVars
               /\ chimeTimers = PreChimeTimers

\* The first tick after startup fired the alarm.
C20_WitnessFirstTickAfterStartup ==
    /\ lastOp.name = "poll" /\ lastOp.fired
    /\ PreLastCheckedMinute = NoMinute
    /\ alarmTriggered /\ audioContext

----------------------------------------------------------------------------
(* The clock that announces the pre-alarm *)

InitTick ==
    /\ InitAlarm
    /\ url = NoParams
    /\ audioFails = FALSE
    /\ InitWakeLock
    /\ currentTime \in StartTimes
    /\ lastCheckedMinute = NoMinute
    /\ InitHistory

NextTick ==
    \/ TickWithPreAlarm
    \/ toggleAlarm
    \/ togglePreAlarm
    \/ dismissAlarm
    \/ \E value \in IntervalInputs : handleIntervalChange(value)
    \/ \E minutes \in MinuteInputs : setAlarmMinutes(minutes)
    \/ chimeTimeout

SpecTick == InitTick /\ [][NextTick]_vars

\* The tick moved the clock into another minute.
EnteredNewMinute ==
    /\ lastOp.name = "pollWithPreAlarm"
    /\ MinuteOfDay(PreCurrentTime) # MinuteOfDay(currentTime)

----------------------------------------------------------------------------
(* The screen wake lock *)

\* index.tsx:23: the toggle is rendered only where the Wake Lock API exists
\* (index.tsx:457-459).
wakeLockSupported == TRUE

\* Everything but the wake lock and lastOp.
alarmSide == <<alarmVars, currentTime, lastCheckedMinute, chimeTimers, url, audioFails,
               timeToNextAlarm, loaded, elapsed, pollTriggers, preFires>>

ActiveSentinels == {id \in 1..MaxSentinels : sentinels[id] = "active"}

\* The sentinel the browser hands out next.
FreshSentinels ==
    {id \in 1..MaxSentinels :
        sentinels[id] = "none" /\ \A other \in 1..(id - 1) : sentinels[other] # "none"}

\* index.tsx:35-42, requestWakeLock up to its await: the request waits for the
\* browser.
requestWakeLockCalled ==
    IF ~wakeLockSupported
    THEN UNCHANGED <<wakeLockEnabled, wakeLockSentinel, sentinels, pendingRequests,
                     pendingReleases>>
    ELSE /\ pendingRequests < MaxPending
         /\ pendingRequests' = pendingRequests + 1
         /\ UNCHANGED <<wakeLockEnabled, wakeLockSentinel, sentinels, pendingReleases>>

\* index.tsx:56-58, releaseWakeLock up to its await.  release() of a sentinel
\* that is still held gives it up and fires its release event at once, whose
\* listener (index.tsx:51-53) clears wakeLockEnabled.
releaseWakeLockCalled ==
    IF wakeLockSentinel # NoSentinel
    THEN /\ pendingReleases < MaxPending
         /\ sentinels' = [sentinels EXCEPT ![wakeLockSentinel] = "released"]
         /\ wakeLockEnabled' = IF sentinels[wakeLockSentinel] = "active"
                               THEN FALSE
                               ELSE wakeLockEnabled
         /\ pendingReleases' = pendingReleases + 1
         /\ UNCHANGED <<wakeLockSentinel, pendingRequests>>
    ELSE UNCHANGED <<wakeLockEnabled, wakeLockSentinel, sentinels, pendingRequests,
                     pendingReleases>>

\* index.tsx:64-70, up to the await of the branch taken.
toggleWakeLock ==
    /\ IF wakeLockEnabled THEN releaseWakeLockCalled ELSE requestWakeLockCalled
    /\ lostToSystem' = FALSE
    /\ lastOp' = Op("toggleWakeLock", 0, wakeLockEnabled, FALSE, 0, 0, 0)
    /\ UNCHANGED visibilityState
    /\ UNCHANGED alarmSide

\* index.tsx:42 and 49-53: the browser grants a request (it does so only to a
\* visible page) and requestWakeLock runs on: it keeps the sentinel, sets
\* wakeLockEnabled and listens for the sentinel's release.
requestGranted ==
    \E id \in FreshSentinels :
        /\ pendingRequests > 0
        /\ visibilityState = "visible"
        /\ pendingRequests' = pendingRequests - 1
        /\ sentinels' = [sentinels EXCEPT ![id] = "active"]
        /\ wakeLockSentinel' = id
        /\ wakeLockEnabled' = TRUE
        /\ lostToSystem' = FALSE
        /\ lastOp' = Op("requestGranted", id, FALSE, TRUE, 0, 0, 0)
        /\ UNCHANGED <<pendingReleases, visibilityState>>
        /\ UNCHANGED alarmSide

\* index.tsx:43-47: the browser rejects a request; requestWakeLock alerts and
\* returns.
requestRejected ==
    /\ pendingRequests > 0
    /\ pendingRequests' = pendingRequests - 1
    /\ lastOp' = [Op("requestRejected", 0, FALSE, FALSE, 0, 0, 0) EXCEPT !.threw = TRUE]
    /\ UNCHANGED <<wakeLockEnabled, wakeLockSentinel, sentinels, pendingReleases,
                   visibilityState, lostToSystem>>
    /\ UNCHANGED alarmSide

\* index.tsx:58-60: releaseWakeLock runs on after its await.
releaseResumed ==
    /\ pendingReleases > 0
    /\ pendingReleases' = pendingReleases - 1
    /\ wakeLockSentinel' = NoSentinel
    /\ wakeLockEnabled' = FALSE
    /\ lastOp' = PlainOp("releaseResumed")
    /\ UNCHANGED <<sentinels, pendingRequests, visibilityState, lostToSystem>>
    /\ UNCHANGED alarmSide

\* index.tsx:51-53: the system takes the screen wake lock back, which
\* releases every sentinel held, and the listener of each runs.
\* wakeLockSentinel keeps the released sentinel.
systemRelease ==
    /\ ActiveSentinels # {}
    /\ sentinels' = [id \in 1..MaxSentinels |->
                        IF sentinels[id] = "active" THEN "released" ELSE sentinels[id]]
    /\ wakeLockEnabled' = FALSE
    /\ lostToSystem' = (lostToSystem \/ wakeLockEnabled)
    /\ lastOp' = Op("systemRelease", 0, wakeLockEnabled, FALSE, 0, 0, 0)
    /\ UNCHANGED <<wakeLockSentinel, pendingRequests, pendingReleases, visibilityState>>
    /\ UNCHANGED alarmSide

\* index.tsx:438-446, the condition of handleVisibilityChange
reacquires(state) ==
    state = "visible" /\ wakeLockEnabled /\ wakeLockSentinel = NoSentinel

\* index.tsx:436-455.  The page is hidden or shown again.  Hiding it makes the
\* system release every lock held (the listeners of index.tsx:51-53 run);
\* then handleVisibilityChange runs.  checked of lastOp tells whether the
\* lock had been lost to the system, fired whether the handler called
\* requestWakeLock.
visibilityChange ==
    LET state == IF visibilityState = "visible" THEN "hidden" ELSE "visible"
        taken == state = "hidden" /\ ActiveSentinels # {}
    IN /\ visibilityState' = state
       /\ lostToSystem' = (lostToSystem \/ (taken /\ wakeLockEnabled))
       /\ IF taken
          THEN /\ sentinels' = [id \in 1..MaxSentinels |->
                                   IF sentinels[id] = "active" THEN "released"
                                   ELSE sentinels[id]]
               /\ wakeLockEnabled' = FALSE
               /\ UNCHANGED <<wakeLockSentinel, pendingRequests, pendingReleases>>
          ELSE IF reacquires(state)
               THEN requestWakeLockCalled
               ELSE UNCHANGED <<wakeLockEnabled, wakeLockSentinel, sentinels,
                                pendingRequests, pendingReleases>>
       /\ lastOp' = [Op("visibilityChange", 0, lostToSystem, ~taken /\ reacquires(state),
                        0, 0, 0) EXCEPT !.key = state]
       /\ UNCHANGED alarmSide

InitWake ==
    /\ InitAlarm
    /\ url = NoParams
    /\ audioFails = FALSE
    /\ InitWakeLock
    /\ currentTime = Time(6, 58, 0)
    /\ lastCheckedMinute = NoMinute
    /\ InitHistory

NextWake ==
    \/ toggleWakeLock
    \/ requestGranted
    \/ requestRejected
    \/ releaseResumed
    \/ systemRelease
    \/ visibilityChange

SpecWake == InitWake /\ [][NextWake]_vars

\* C22: when the page becomes visible again after the system released the
\* wake lock while the user's wake-lock toggle was on, handleVisibilityChange
\* requests the wake lock again.
C22_VisibleAgainRequestsLock ==
    (lastOp.name = "visibilityChange" /\ visibilityState = "visible" /\ lastOp.checked)
        => lastOp.fired

\* C23: the calculator and the match detector agree: for the current
\* minute-of-day c and the alarm (h, m), the minute c +
\* computeMinutesUntilAlarm(c), taken modulo 1440, satisfies the time
\* comparison of checkAlarm, and no minute strictly between c and it does.
C23_CalculatorMeetsDetector ==
    ~timeToNextAlarm.isNull =>
        LET d == timeToNextAlarm.minutesUntilAlarm
        IN /\ d >= 1
           /\ alarmTimeMatches(Advance(currentTime, d, 0))
           /\ \A k \in 1..(d - 1) : ~alarmTimeMatches(Advance(currentTime, k, 0))

\* The next occurrence is tomorrow's first, more than a minute away.
C23_WitnessPastMidnight ==
    /\ ~timeToNextAlarm.isNull
    /\ timeToNextAlarm.minutesUntilAlarm > 1
    /\ MinuteOfDay(currentTime) + timeToNextAlarm.minutesUntilAlarm >= MinutesPerDay
    /\ alarmTimeMatches(Advance(currentTime, timeToNextAlarm.minutesUntilAlarm, 0))

\* The {hours, minutes, seconds} a variant of computeTimeToNextAlarm returns.
Returned(value) ==
    [hours |-> value.hours, minutes |-> value.minutes, seconds |-> value.seconds]

\* C24: the two implementations of computeTimeToNextAlarm, the one that
\* takes minutesUntilAlarm * 60 - seconds and the one that compares at second
\* granularity, return the same {hours, minutes, seconds} for every current
\* time and every alarm (hour 0..11, minute 0..59), and both return null
\* when the alarm is disabled.
C24_VariantsAgree ==
    lastOp.name = "computeTimeToNextAlarm" =>
        /\ timeToNextAlarm.isNull <=> ~alarmEnabled
        /\ ~timeToNextAlarm.isNull =>
               Returned(timeToNextAlarm.minuteDelta) = Returned(timeToNextAlarm.secondCompare)

\* In the last second of the alarm's own minute both return 11:59:01.
C24_WitnessInsideAlarmMinute ==
    /\ lastOp.name = "computeTimeToNextAlarm"
    /\ ~timeToNextAlarm.isNull
    /\ AtAlarmTime
    /\ currentTime.seconds = SecondsPerMinute - 1
    /\ Returned(timeToNextAlarm.secondCompare)
           = [hours |-> HoursPerDial - 1, minutes |-> MinutesPerHour - 1, seconds |-> 1]

----------------------------------------------------------------------------
(* The ring as the page starts and stops it: the poll, the alarm toggle, the *)
(* test button and the dismissal                                           *)

InitRing ==
    /\ InitAlarm
    /\ url = NoParams
    /\ audioFails = FALSE
    /\ InitWakeLock
    /\ currentTime \in StartTimes
    /\ lastCheckedMinute = NoMinute
    /\ InitHistory

\* The alarm times the user sets around the clock's time.
RingHours == {DefaultAlarmHours - 1, DefaultAlarmHours}
RingMinutes == {0, MinutesPerHour - 1}
RingAngles ==
    {((DefaultAlarmHours - 1) * MinutesPerHour + MinutesPerHour - 1) * AngleStepsPerMinute,
     DefaultAlarmHours * MinutesPerHour * AngleStepsPerMinute}

NextRing ==
    \/ Tick
    \/ toggleAlarm
    \/ testAlarm
    \/ dismissAlarm
    \/ chimeTimeout
    \/ \E hours \in RingHours : setAlarmHours(hours)
    \/ \E minutes \in RingMinutes : setAlarmMinutes(minutes)
    \/ \E a \in RingAngles : updateAlarmFromAngle(a)

SpecRing == InitRing /\ [][NextRing]_vars

\* C25 as stated: alarmTriggered = true implies alarmEnabled = true in every
\* state reached by toggleAlarm, testAlarm, the triggerAlarm of the poll and
\* dismissAlarm: the alarm never rings while disarmed.
C25_RingingImpliesEnabled == alarmTriggered => alarmEnabled

\* C25 amended: toggleAlarm, the triggerAlarm of the poll and dismissAlarm
\* never leave the alarm ringing while disarmed unless it rang disarmed
\* before; testAlarm rings the alarm whether it is enabled or not, so the
\* alarm rings disarmed exactly after a testAlarm on a disarmed alarm, until
\* it is dismissed or enabled.
C25_OnlyTestRingsDisarmed ==
    /\ (lastOp.name \in {"poll", "toggleAlarm", "dismissAlarm", "chimeTimeout"}
            /\ (PreTriggered => PreEnabled))
           => (alarmTriggered => alarmEnabled)
    /\ lastOp.name = "poll" /\ lastOp.fired => alarmEnabled
    /\ lastOp.name = "testAlarm" =>
           /\ alarmTriggered
           /\ alarmEnabled = PreEnabled

\* The poll rings the armed alarm at its minute.
C25_WitnessPollRingsArmed ==
    /\ lastOp.name = "poll" /\ lastOp.fired
    /\ ~PreTriggered
    /\ alarmTriggered /\ alarmEnabled

\* C26: after each of triggerAlarm, testAlarm, dismissAlarm and toggleAlarm
\* that completes without error the alarm sound is active (audioContext is
\* not null) exactly when alarmTriggered is true.
C26_SoundIffRinging ==
    (lastOp.name \in {"triggerAlarm", "testAlarm", "dismissAlarm", "toggleAlarm"}
        /\ ~lastOp.threw)
        => (audioContext <=> alarmTriggered)

\* C27: at most one self-repeating chime chain is active at any time: while
\* the alarm rings no more than one playPattern timer is pending, also when
\* the ring was dismissed and started again before the old ring's timer ran;
\* no timer callback plays the pattern alongside another chain.
C27_OneChimeChain ==
    /\ (alarmTriggered /\ audioContext) => chimeTimers <= 1
    /\ (lastOp.name = "chimeTimeout" /\ lastOp.fired) => PreChimeTimers <= 1

\* The alarm was enabled, idle and set to the minute the clock was in.
WasDueBefore ==
    /\ PreEnabled /\ ~PreTriggered
    /\ hours12(PreCurrentTime.hours) = PreHours
    /\ PreCurrentTime.minutes = PreMinutes

\* C28 as stated: whenever the alarm is enabled, not ringing and set to the
\* current minute, it starts ringing before that minute ends, also when it
\* was enabled or set to the current minute after the first tick of the
\* minute: the tick that leaves a minute, a tick of that minute having run
\* just before it, never finds the alarm enabled, idle and set to that minute.
C28_RingsBeforeMinuteEnds ==
    (lastOp.name = "poll" /\ lastOp.run >= 2
        /\ MinuteOfDay(PreCurrentTime) # MinuteOfDay(currentTime))
        => ~WasDueBefore

\* C28 amended: the alarm starts ringing at the first poll tick of a minute
\* at which it is enabled, not ringing and set to that minute; when it is
\* enabled or set to the current minute after the first tick of the minute,
\* the later ticks of the minute check nothing and it does not ring in that
\* minute.
C28_RingsAtFirstTickOnly ==
    (lastOp.name = "poll" /\ PreEnabled /\ ~PreTriggered /\ alarmTimeMatches(currentTime)) =>
        /\ FirstTickOfMinute => (lastOp.fired /\ alarmTriggered)
        /\ ~FirstTickOfMinute => (~lastOp.fired /\ ~alarmTriggered)

\* A later tick of the minute the alarm was set to after the minute's first
\* tick: nothing has rung in this minute and nothing rings.
C28_WitnessSetAfterFirstTick ==
    /\ lastOp.name = "poll" /\ ~lastOp.checked
    /\ PreEnabled /\ ~PreTriggered /\ alarmTimeMatches(currentTime)
    /\ pollTriggers = 0
    /\ ~alarmTriggered

\* The distance of x and y around a dial of n.
DialDistance(x, y, n) ==
    LET d == (x - y) % n
    IN IF d <= n - d THEN d ELSE n - d

\* C29: updateAlarmFromAngle sets the alarm time nearest to the position of
\* the angle on the 12-hour dial: hours * 60 + minutes is within half a minute
\* of the exact position, modulo 720; an angle whose minute part rounds up to
\* 60 gives the next hour with minute 0.
C29_NearestTimeOnDial ==
    lastOp.name = "updateAlarmFromAngle" =>
        2 * DialDistance((alarmHours * MinutesPerHour + alarmMinutes) * AngleStepsPerMinute,
                         lastOp.arg,
                         HoursPerDial * MinutesPerHour * AngleStepsPerMinute)
            <= AngleStepsPerMinute

\* C30: however the toggleWakeLock calls, their awaits and the system's
\* releases interleave, whenever wakeLockEnabled is false and no call waits
\* in an await, no sentinel is acquired and unreleased: overlapping toggles
\* leak no sentinel.
C30_NoLeakedSentinel ==
    (~wakeLockEnabled /\ pendingRequests = 0 /\ pendingReleases = 0)
        => ActiveSentinels = {}

====
